---- MODULE Spec2Model ----
(***************************************************************************)
(* Model of the node-contentjs incremental content build engine:          *)
(* lib/database.js (resource path parser, source and target databases),   *)
(* lib/project.js (Target, Package, Project, Builder) and the walk of     *)
(* lib/fsutility.js.  The compiler cache (lib/compiler.js) is modelled    *)
(* from its documented contract.                                          *)
(*                                                                         *)
(* Strings are sequences of one-character strings.  Indices handed to the *)
(* string operators are the 0-based indices of the JavaScript source.     *)
(***************************************************************************)
EXTENDS Integers, Sequences, FiniteSets, TLC

(***************************************************************************)
(* Bounds of the model.                                                    *)
(***************************************************************************)
\* number of buildProject runs (one process each) in a behaviour
MaxBuilds == 3
\* number of filesystem changes made by the user between the runs
MaxChanges == 1
\* number of calls made on a database that is driven directly
MaxOps == 4
\* length of the names the functions of the library are called on
MaxNameLen == 6

\* the runs of a tool and the changes of the tree in a behaviour of FsSpec
MaxFsOps == 3

\* the diffTree calls in a behaviour of DiffSpec
MaxDiffCalls == 2

\* the calls, timer ticks and changes of the tree in a behaviour of WatchSpec
MaxWatchOps == 4

\* the calls and file writes in a behaviour of CfgSpec
MaxCfgOps == 3

(***************************************************************************)
(* JavaScript string primitives.                                           *)
(***************************************************************************)
\* the value of a missing property, of a failed lookup, of a statSync that throws
Undefined == [undefined |-> TRUE]

\* JavaScript passes arguments by value: the argument is evaluated once,
\* before the body of the function runs
Call(F(_), argument) == CHOOSE result \in { F(x) : x \in {argument} } : TRUE
Call2(F(_, _), a, b) == CHOOSE result \in { F(x, y) : x \in {a}, y \in {b} } : TRUE

Min2(a, b) == IF a < b THEN a ELSE b
Max2(a, b) == IF a < b THEN b ELSE a

\* String.prototype.indexOf(c): first 0-based position of c, or -1
indexOf(s, c) ==
    LET hits == {i \in 1..Len(s) : s[i] = c}
    IN  IF hits = {} THEN -1
        ELSE (CHOOSE i \in hits : \A j \in hits : i <= j) - 1

\* faulty variant: the first position in place of the last
lastIndexOf_first(s, c) ==
    LET hits == {i \in 1..Len(s) : s[i] = c}
    IN  IF hits = {} THEN -1
        ELSE (CHOOSE i \in hits : \A j \in hits : i <= j) - 1

\* String.prototype.lastIndexOf(c): last 0-based position of c, or -1
lastIndexOf(s, c) ==
    LET hits == {i \in 1..Len(s) : s[i] = c}
    IN  IF hits = {} THEN -1
        ELSE (CHOOSE i \in hits : \A j \in hits : i >= j) - 1

\* String.prototype.substring(a, b): arguments clamped to 0..length and
\* swapped when a > b
substring(s, a, b) ==
    LET ca == Min2(Max2(a, 0), Len(s))
        cb == Min2(Max2(b, 0), Len(s))
        lo == Min2(ca, cb)
        hi == Max2(ca, cb)
    IN  SubSeq(s, lo + 1, hi)

\* String.prototype.split(c): the segments between the separators; the
\* empty string splits into one empty segment
RECURSIVE split(_, _)
split(s0, c) ==
    Call2(LAMBDA s, p :
        IF p = -1 THEN <<s>>
        ELSE <<substring(s, 0, p)>> \o split(substring(s, p + 1, Len(s)), c),
          s0, indexOf(s0, c))

(***************************************************************************)
(* Paths.  A directory is a tuple: <<package, "source">> is                *)
(* packages/{package}.source and <<package, platform, "target">> is       *)
(* packages/{package}.{platform}.target.  An absolute path of a file is a *)
(* directory and a file name.                                              *)
(***************************************************************************)
Path_join(dir, name) == [dir |-> dir, name |-> name]

Path_basename(path) == path.name

\* Path.relative(root, path): the bare name below root, and a path that
\* climbs out of root ("../dir/name") otherwise
Path_relative(root, path) ==
    IF path.dir = root
    THEN [up |-> FALSE, dir |-> <<>>, name |-> path.name]
    ELSE [up |-> TRUE,  dir |-> path.dir, name |-> path.name]

\* Path.join(root, relative) for a relative path made by Path.relative
Path_resolve(root, rel) ==
    IF rel.up THEN [dir |-> rel.dir, name |-> rel.name]
    ELSE [dir |-> root, name |-> rel.name]

(***************************************************************************)
(* lib/database.js: parseResourcePath                                      *)
(***************************************************************************)
parseResourcePath(path) ==
    Call(LAMBDA filename :
        Call2(LAMBDA lp, fp :
            Call(LAMBDA propsstr :
                [ resourceName |-> substring(filename, 0, fp),
                  resourceType |-> substring(filename, lp + 1, Len(filename)),
                  properties   |-> split(propsstr, ".") ],
                 IF fp = lp THEN <<>> ELSE substring(filename, fp + 1, lp)),
              lastIndexOf(filename, "."), indexOf(filename, ".")),
         Path_basename(path))

(***************************************************************************)
(* lib/project.js: Target.prototype.targetPathFor.  The accumulator is a   *)
(* JavaScript number; it is kept here as hi * 65536 + lo with lo in        *)
(* 0..65535, so that no intermediate value leaves the checker's integers.  *)
(***************************************************************************)
Letters == <<"a","b","c","d","e","f","g","h","i","j","k","l","m",
             "n","o","p","q","r","s","t","u","v","w","x","y","z">>

\* String.prototype.charCodeAt for the characters the model uses
charCodeAt(ch) ==
    IF ch = "." THEN 46
    ELSE 96 + (CHOOSE i \in 1..Len(Letters) : Letters[i] = ch)

Num(hi, lo) == [hi |-> hi, lo |-> lo]

\* ToInt32 of a number: wrap into -2^31 .. 2^31-1
ToInt32(n) ==
    LET m == n.hi % 65536
    IN  Num(IF m >= 32768 THEN m - 65536 ELSE m, n.lo)

\* n << 7 on the 32-bit integer value of n
ShiftLeft7(n) ==
    LET v   == ToInt32(n)
        lo7 == v.lo * 128
    IN  ToInt32(Num(v.hi * 128 + (lo7 \div 65536), lo7 % 65536))

\* n >> 25 on the 32-bit integer value of n (sign-propagating)
ShiftRight25(n) ==
    LET v == ToInt32(n)
        x == v.hi \div 512
    IN  IF x < 0 THEN Num(-1, x + 65536) ELSE Num(0, x)

\* addition of two numbers (exact: the values stay far below 2^53)
NumAdd(a, b) ==
    LET lo == a.lo + b.lo
    IN  Num(a.hi + b.hi + (lo \div 65536), lo % 65536)

HexDigits == <<"0","1","2","3","4","5","6","7","8","9","a","b","c","d","e","f">>

\* the hexadecimal digits of a natural number, without leading zeros
RECURSIVE HexNat(_)
HexNat(x) ==
    IF x < 16 THEN <<HexDigits[x + 1]>>
    ELSE HexNat(x \div 16) \o <<HexDigits[(x % 16) + 1]>>

\* the four hexadecimal digits of x in 0..65535
Hex4(x) ==
    << HexDigits[(x \div 4096) + 1], HexDigits[((x \div 256) % 16) + 1],
       HexDigits[((x \div 16) % 16) + 1], HexDigits[(x % 16) + 1] >>

\* Number.prototype.toString(16): a minus sign and the magnitude when negative
toString16(n) ==
    LET neg == n.hi < 0
        mag == IF ~neg THEN n
               ELSE IF n.lo = 0 THEN Num(-n.hi, 0)
               ELSE Num(-n.hi - 1, 65536 - n.lo)
        dig == IF mag.hi = 0 THEN HexNat(mag.lo)
               ELSE HexNat(mag.hi) \o Hex4(mag.lo)
    IN  IF neg THEN <<"-">> \o dig ELSE dig

\* the loop of targetPathFor over the code units i+1 .. n of resourceName
RECURSIVE HashFrom(_, _, _)
HashFrom(resourceName, i, hash0) ==
    Call(LAMBDA hash :
        IF i > Len(resourceName) THEN hash
        ELSE HashFrom(resourceName, i + 1,
                NumAdd(Call2(NumAdd, ShiftLeft7(hash), ShiftRight25(hash)),
                       Num(0, charCodeAt(resourceName[i])))),
         hash0)

targetPathFor(targetPath, resourceName) ==
    Path_join(targetPath, Call(toString16, HashFrom(resourceName, 1, Num(0, 0))))

(***************************************************************************)
(* The project on disk.  Every behaviour fixes one layout: the packages    *)
(* (in the order Object.keys lists them) and, for each, the names that     *)
(* readdirSync returns for its source directory.                           *)
(***************************************************************************)
GENERIC_PLATFORM == <<"g","e","n","e","r","i","c">>
IOS == <<"i">>

\* the values of the targetPlatform argument of buildProject
TargetPlatforms == { <<>>, IOS }

PackageNames == {"p", "q"}

A_T   == <<"a",".","t">>          \* a.t
A_U   == <<"a",".","u">>          \* a.u   (same resource name as a.t)
B_I_T == <<"b",".","i",".","t">>  \* b.i.t (tagged for platform i)
C_X   == <<"c",".","x">>          \* c.x   (no compiler for type x)
DOT_D == <<".","d">>              \* .d    (hidden: never walked)

Layouts ==
    { [keys |-> <<>>,         dir |-> [k \in {} |-> <<>>]],
      [keys |-> <<"p">>,      dir |-> [k \in {"p"} |-> <<A_T, A_U>>]],
      [keys |-> <<"p">>,      dir |-> [k \in {"p"} |-> <<DOT_D, A_T, B_I_T>>]],
      [keys |-> <<"p", "q">>, dir |-> [k \in {"p", "q"} |->
                                          IF k = "p" THEN <<C_X, A_T>> ELSE <<A_U>>]],
      [keys |-> <<"p", "q">>, dir |-> [k \in {"p", "q"} |->
                                          IF k = "p" THEN <<>> ELSE <<C_X>>]] }

\* pipeline.json: resource type -> compiler definition
Pipeline == [k \in {<<"t">>, <<"u">>} |-> IF k = <<"t">> THEN "copy-t" ELSE "copy-u"]

SourceDir(packageName) == <<packageName, "source">>
TargetDir(packageName, platformName) == <<packageName, platformName, "target">>
SourceDbPath(packageName) == <<packageName, "source.json">>
TargetDbPath(packageName, platformName) == <<packageName, platformName, "target.json">>

EmptyMap == [k \in {} |-> 0]
MapPut(m, k, v) == [j \in DOMAIN m \cup {k} |-> IF j = k THEN v ELSE m[j]]

VARIABLES
    layout,      \* the project layout of this behaviour
    srcStat,     \* disk: absolute source path -> [mtime, size]
    outFiles,    \* disk: the output files that exist
    dbFiles,     \* disk: database path -> saved database file
    targetDirs,  \* disk: the target directories that exist
    packages,    \* process: project.packages, package name -> Package
    builder,     \* process: the Builder's own fields
    compilers,   \* process: the compiler cache and its workers
    events,      \* the events the Builder has emitted in this run
    phase,       \* "idle", "spawning", "building" or "done"
    writes,      \* disk: the Filesystem.writeFileSync calls of this run
    api,         \* a database driven through its own methods (DbSpec)
    fn,          \* a call of a function of the library (FnSpec)
    fs,          \* a directory tree and the tools run on it (FsSpec)
    ghost        \* bookkeeping for the properties, never read by the model

vars == << layout, srcStat, outFiles, dbFiles, targetDirs, packages, builder,
           compilers, events, phase, writes, api, fn, fs, ghost >>

(***************************************************************************)
(* The filesystem as the process sees it while one handler runs.           *)
(***************************************************************************)
\* fs.statSync(path): the stat record, or Undefined where statSync throws
statSync(path) == IF path \in DOMAIN srcStat THEN srcStat[path] ELSE Undefined

\* fs.readdirSync of the source directory of a package: the files that exist
readdirSync(packageName) ==
    SelectSeq(layout.dir[packageName],
              LAMBDA n : Path_join(SourceDir(packageName), n) \in DOMAIN srcStat)

(***************************************************************************)
(* lib/database.js: SourceDatabase                                         *)
(***************************************************************************)
NewSourceDatabase ==
    [ bundleName |-> "", entries |-> <<>>, entryTable |-> EmptyMap, dirty |-> FALSE ]

\* Date.prototype.toJSON (JSON.stringify of writeTime): the ISO-8601 string
\* spells the seconds of the Date and a three-digit field of milliseconds
DateToJSON(date) == [seconds |-> date \div 1000, millis |-> date % 1000]

\* faulty variant: the milliseconds of the string are dropped
NewDate_seconds(json) == json.seconds * 1000

\* new Date(string): the Date of the seconds and milliseconds of the string
NewDate(json) == json.seconds * 1000 + json.millis

\* the loop of load that rebuilds entryTable: a later entry wins its key
RECURSIVE IndexEntries(_, _, _)
IndexEntries(entries, i, table) ==
    IF i > Len(entries) THEN table
    ELSE IndexEntries(entries, i + 1, MapPut(table, entries[i].relativePath, i - 1))

SourceDatabase_load(file) ==
    LET entries == [i \in 1..Len(file.entries) |->
                      [file.entries[i] EXCEPT !.writeTime = NewDate(@)]]
    IN  [ bundleName |-> file.bundleName,
          entries    |-> entries,
          entryTable |-> IndexEntries(entries, 1, EmptyMap),
          dirty      |-> FALSE ]

\* the file written by save
SourceDatabase_save(db) ==
    [ bundleName |-> db.bundleName,
      entries    |-> [i \in 1..Len(db.entries) |->
                        [db.entries[i] EXCEPT !.writeTime = DateToJSON(@)]] ]

SourceDatabase_query(db, rootPath, sourcePath) ==
    LET relPath == Path_relative(rootPath, sourcePath)
    IN  IF relPath \in DOMAIN db.entryTable
        THEN db.entries[db.entryTable[relPath] + 1]
        ELSE Undefined

\* the 0-based index at which create stores the entry for sourcePath
SourceDatabase_indexFor(db, rootPath, sourcePath) ==
    LET relPath == Path_relative(rootPath, sourcePath)
    IN  IF relPath \in DOMAIN db.entryTable THEN db.entryTable[relPath]
        ELSE Len(db.entries)

\* entries[index] = entry on a JavaScript array (index <= length here)
ArraySet(arr, index, entry) ==
    IF index = Len(arr) THEN Append(arr, entry)
    ELSE [arr EXCEPT ![index + 1] = entry]

\* create: the database afterwards; the entry it returns is the one
\* SourceDatabase_query then finds for sourcePath
SourceDatabase_create(db, rootPath, sourcePath) ==
    Call2(LAMBDA stats, parts :
        Call2(LAMBDA entry, index :
            [ db EXCEPT !.entries    = ArraySet(@, index, entry),
                        !.entryTable = MapPut(@, entry.relativePath, index),
                        !.dirty      = TRUE ],
              [ relativePath |-> Path_relative(rootPath, sourcePath),
                resourceName |-> parts.resourceName,
                resourceType |-> parts.resourceType,
                platform     |-> <<>>,
                properties   |-> parts.properties,
                references   |-> <<>>,
                dependencies |-> <<>>,
                writeTime    |-> stats.mtime,
                fileSize     |-> stats.size ],
              SourceDatabase_indexFor(db, rootPath, sourcePath)),
          statSync(sourcePath), parseResourcePath(sourcePath))

\* Array.prototype.slice(begin, end): a new array of the elements at the
\* 0-based positions begin .. end-1; the array itself is left as it is
Array_slice(arr, begin, end) ==
    SubSeq(arr, Min2(begin, Len(arr)) + 1, Min2(end, Len(arr)))

\* an expression statement: the value is computed and dropped
Discard(value, kept) == kept

\* "delete table[key]"
DeleteKey(table, key) == [k \in DOMAIN table \ {key} |-> table[k]]

\* remove: the key leaves entryTable; "this.entries.slice(index, 1)" makes a
\* copy that is dropped, so entries keeps every element
SourceDatabase_remove(db, rootPath, sourcePath) ==
    LET relPath == Path_relative(rootPath, sourcePath)
    IN  IF relPath \in DOMAIN db.entryTable
        THEN [ db EXCEPT !.entryTable = DeleteKey(@, relPath),
                         !.entries    = Discard(Array_slice(@, db.entryTable[relPath], 1), @),
                         !.dirty      = TRUE ]
        ELSE db

\* a write through the entry reference that query or create returned
SourceDatabase_update(db, rootPath, sourcePath, entry) ==
    [ db EXCEPT !.entries[db.entryTable[Path_relative(rootPath, sourcePath)] + 1] = entry ]

\* faulty variant: a new database is not marked dirty
loadSourceDatabase_clean(files, path) ==
    IF path \in DOMAIN files
    THEN SourceDatabase_load(files[path])
    ELSE NewSourceDatabase

loadSourceDatabase(files, path) ==
    IF path \in DOMAIN files
    THEN SourceDatabase_load(files[path])
    ELSE [NewSourceDatabase EXCEPT !.dirty = TRUE]

(***************************************************************************)
(* lib/database.js: TargetDatabase                                         *)
(***************************************************************************)
NewTargetDatabase ==
    [ bundleName |-> "", platform |-> <<>>, entries |-> <<>>,
      entryTable |-> EmptyMap, dirty |-> FALSE ]

TargetDatabase_load(file) ==
    [ bundleName |-> file.bundleName,
      platform   |-> file.platform,
      entries    |-> file.entries,
      entryTable |-> IndexEntries(file.entries, 1, EmptyMap),
      dirty      |-> FALSE ]

TargetDatabase_save(db) ==
    [ bundleName |-> db.bundleName, platform |-> db.platform, entries |-> db.entries ]

TargetDatabase_query(db, rootPath, targetPath) ==
    LET relPath == Path_relative(rootPath, targetPath)
    IN  IF relPath \in DOMAIN db.entryTable
        THEN db.entries[db.entryTable[relPath] + 1]
        ELSE Undefined

\* create, followed by the pushes of the caller onto the returned entry's
\* outputs (outputs is what the caller has pushed; create itself leaves it empty)
\* The fifth parameter of create, compilerVersion, is not used by its body:
\* the entry has no field for it.
TargetDatabase_create(db, rootPath, sourcePath, targetPath, compilerName, outputs) ==
    Call(LAMBDA parts :
        Call(LAMBDA entry :
            Call(LAMBDA index :
                [ db EXCEPT !.entries    = ArraySet(@, index, entry),
                            !.entryTable = MapPut(@, entry.relativePath, index),
                            !.dirty      = TRUE ],
                 IF entry.relativePath \in DOMAIN db.entryTable
                 THEN db.entryTable[entry.relativePath]
                 ELSE Len(db.entries)),
             [ relativePath |-> Path_relative(rootPath, targetPath),
               resourceName |-> parts.resourceName,
               resourceType |-> parts.resourceType,
               sourcePath   |-> Path_relative(rootPath, sourcePath),
               platform     |-> db.platform,
               compilerName |-> compilerName,
               properties   |-> parts.properties,
               outputs      |-> outputs ]),
         parseResourcePath(sourcePath))

\* remove: as SourceDatabase_remove, with the same slice
TargetDatabase_remove(db, rootPath, targetPath) ==
    LET relPath == Path_relative(rootPath, targetPath)
    IN  IF relPath \in DOMAIN db.entryTable
        THEN [ db EXCEPT !.entryTable = DeleteKey(@, relPath),
                         !.entries    = Discard(Array_slice(@, db.entryTable[relPath], 1), @),
                         !.dirty      = TRUE ]
        ELSE db

loadTargetDatabase(files, path) ==
    IF path \in DOMAIN files
    THEN TargetDatabase_load(files[path])
    ELSE [NewTargetDatabase EXCEPT !.dirty = TRUE]

(***************************************************************************)
(* The world a handler of the process works on: the part of the disk the   *)
(* process writes, and the objects of the process.  A handler maps a world *)
(* to the world it leaves behind.                                          *)
(***************************************************************************)
World ==
    [ dbFiles |-> dbFiles, targetDirs |-> targetDirs, packages |-> packages,
      builder |-> builder, compilers |-> compilers, events |-> events,
      writes |-> writes ]

NoPath == [dir |-> <<>>, name |-> <<>>]

\* EventEmitter.emit: the listeners of the build driver only print
Emit(w, name, packageName, sourcePath, info) ==
    [ w EXCEPT !.events = Append(@, [ name |-> name, packageName |-> packageName,
                                      sourcePath |-> sourcePath, info |-> info ]) ]

(***************************************************************************)
(* lib/project.js: Target, Package, Project                                *)
(***************************************************************************)
\* the key under which Package.targets holds the Target of a platform
PlatformKey(platformName) ==
    IF Len(platformName) = 0 THEN GENERIC_PLATFORM ELSE platformName

\* Target.create: the Target object (platformName is a PlatformKey)
Target_create(w, packageName, platformName) ==
    [ database     |-> [ loadTargetDatabase(w.dbFiles, TargetDbPath(packageName, platformName))
                           EXCEPT !.bundleName = packageName,
                                  !.platform   = platformName ],
      targetPath   |-> TargetDir(packageName, platformName),
      packageName  |-> packageName,
      platformName |-> platformName,
      databasePath |-> TargetDbPath(packageName, platformName) ]

\* Package.create (the fields the Builder adds later start as 0 / FALSE)
Package_create(w, packageName) ==
    [ database       |-> [ loadSourceDatabase(w.dbFiles, SourceDbPath(packageName))
                             EXCEPT !.bundleName = packageName ],
      databasePath   |-> SourceDbPath(packageName),
      sourcePath     |-> SourceDir(packageName),
      packageName    |-> packageName,
      targets        |-> EmptyMap,
      submitComplete |-> FALSE,
      pendingFiles   |-> 0,
      errorCount     |-> 0 ]

\* "this.targets = {}" and "this.packages = {}" are object literals: a
\* lookup table[name] of a name that Object.prototype defines finds the
\* inherited property, not undefined
CONSTRUCTOR == <<"c","o","n","s","t","r","u","c","t","o","r">>
TO_STRING == <<"t","o","S","t","r","i","n","g">>

InheritedPlatformNames == { CONSTRUCTOR, TO_STRING }

InheritedPackageNames == { "constructor", "toString" }

\* table[key] !== undefined
Defined(table, key, inherited) == key \in DOMAIN table \/ key \in inherited

\* Package.prototype.targetPlatform: get-or-insert; Target.create makes the
\* target directory
Package_targetPlatform(w0, packageName, platformName) ==
    Call(LAMBDA w :
        IF Defined(w.packages[packageName].targets, PlatformKey(platformName),
                   InheritedPlatformNames)
        THEN w
        ELSE [ w EXCEPT !.packages[packageName].targets =
                           MapPut(@, PlatformKey(platformName),
                                  Target_create(w, packageName, PlatformKey(platformName))),
                        !.targetDirs = @ \cup {TargetDir(packageName, PlatformKey(platformName))} ],
         w0)

\* Package.prototype.cacheTargets: a Target for every target directory of
\* the package that exists on disk
RECURSIVE Package_cacheTargets(_, _, _)
Package_cacheTargets(w, packageName, dirs) ==
    IF dirs = {} THEN w
    ELSE Package_cacheTargets(
             IF (CHOOSE d \in dirs : TRUE)[1] = packageName
             THEN Package_targetPlatform(w, packageName, (CHOOSE d \in dirs : TRUE)[2])
             ELSE w,
             packageName, dirs \ {CHOOSE d \in dirs : TRUE})

\* Project.prototype.contentPackage: get-or-insert
Project_contentPackage(w0, packageName) ==
    Call(LAMBDA w :
        IF Defined(w.packages, packageName, InheritedPackageNames) THEN w
        ELSE [ w EXCEPT !.packages = MapPut(@, packageName, Package_create(w, packageName)) ],
         w0)

\* Project.prototype.cachePackages over the source directories keys[i..]
RECURSIVE Project_cachePackages(_, _, _)
Project_cachePackages(w0, keys, i) ==
    Call(LAMBDA w :
        IF i > Len(keys) THEN w
        ELSE Project_cachePackages(
                 Package_cacheTargets(Project_contentPackage(w, keys[i]), keys[i], w.targetDirs),
                 keys, i + 1),
         w0)

\* Object.keys(project.packages): insertion order, the order of cachePackages
ObjectKeys(w) == SelectSeq(layout.keys, LAMBDA k : k \in DOMAIN w.packages)

(***************************************************************************)
(* lib/compiler.js is not part of the sources: the compiler cache follows  *)
(* its documented contract.  One worker per resource type of the pipeline, *)
(* each with a FIFO of requests whose head is the request in flight.       *)
(***************************************************************************)
NO_COMPILER == "no compiler for resource type"

createCompilerCache(pipeline) ==
    [ workers       |-> [t \in DOMAIN pipeline |->
                           [state |-> "Spawning", queue |-> <<>>, version |-> 0]],
      ready         |-> FALSE,
      calls         |-> <<>>,
      shutdownCalls |-> 0,
      shutdownAt    |-> 0 ]

\* CompilerCache.shutdown; the record of the call notes the events emitted
\* before it
CompilerCache_shutdown(w) ==
    [ w EXCEPT !.compilers.workers = [t \in DOMAIN @ |-> [@[t] EXCEPT !.state = "Terminating"]],
               !.compilers.shutdownCalls = @ + 1,
               !.compilers.shutdownAt = Len(w.events) ]

(***************************************************************************)
(* lib/project.js: Builder                                                 *)
(***************************************************************************)
NewBuilder == [ platforms |-> <<>>, pendingPackages |-> 0, platform |-> <<>> ]

determinePlatform(plats, props) ==
    LET hits == {i \in 1..Len(props) : \E j \in 1..Len(plats) : props[i] = plats[j]}
    IN  IF hits = {} THEN GENERIC_PLATFORM
        ELSE props[CHOOSE i \in hits : \A k \in hits : i <= k]

sourceFileModified(entry, stat) ==
    \/ stat.mtime # entry.writeTime
    \/ stat.size # entry.fileSize

\* faulty variant: the entries do have the method
EntryMethods_own == {"dependenciesModified"}

\* the methods of a database entry: entries are object literals (create) or
\* parsed JSON (load), so they have none
EntryMethods == {}

Returned(v) == [thrown |-> FALSE, value |-> v]
Thrown == [thrown |-> TRUE, value |-> FALSE]

\* the body of the try block of dependenciesModified; DepsFrom is its loop
\* over entry.dependencies from position i
RECURSIVE TryDependenciesModified(_, _), DepsFrom(_, _, _), dependenciesModified(_, _)
TryDependenciesModified(bundle, entry) ==
    LET stat == statSync(Path_resolve(bundle.sourcePath, entry.relativePath))
    IN  IF stat = Undefined THEN Thrown
        ELSE IF sourceFileModified(entry, stat) THEN Returned(TRUE)
        ELSE DepsFrom(bundle, entry.dependencies, 1)

DepsFrom(bundle, refs, i) ==
    IF i > Len(refs) THEN Returned(FALSE)
    ELSE LET r == SourceDatabase_query(bundle.database, bundle.sourcePath, refs[i])
         IN  IF r = Undefined THEN Returned(TRUE)
             ELSE IF "dependenciesModified" \notin EntryMethods
                  THEN Thrown   \* r.dependenciesModified is not a function
             ELSE IF dependenciesModified(bundle, r) THEN Returned(TRUE)
             ELSE DepsFrom(bundle, refs, i + 1)

\* dependenciesModified with its nested calls counted: "running" stands for
\* a call that is still nested deeper than depth allows
RECURSIVE DependenciesModifiedWithin(_, _, _), DepsWithin(_, _, _, _)
DependenciesModifiedWithin(bundle, entry, depth) ==
    IF depth = 0 THEN "running"
    ELSE LET stat == statSync(Path_resolve(bundle.sourcePath, entry.relativePath))
         IN  IF stat = Undefined THEN "true"
             ELSE IF sourceFileModified(entry, stat) THEN "true"
             ELSE DepsWithin(bundle, entry.dependencies, 1, depth)

DepsWithin(bundle, refs, i, depth) ==
    IF i > Len(refs) THEN "false"
    ELSE LET r == SourceDatabase_query(bundle.database, bundle.sourcePath, refs[i])
         IN  IF r = Undefined THEN "true"
             ELSE IF "dependenciesModified" \notin EntryMethods
                  THEN "true"   \* the TypeError is caught: return true
             ELSE LET nested == DependenciesModifiedWithin(bundle, r, depth - 1)
                  IN  IF nested = "false" THEN DepsWithin(bundle, refs, i + 1, depth)
                      ELSE nested

\* faulty variant: a catch block that reports "not modified"
DependenciesCatch_false == FALSE

\* what the catch block of dependenciesModified returns
DependenciesCatch == TRUE

dependenciesModified(bundle, entry) ==
    LET body == TryDependenciesModified(bundle, entry)
    IN  IF body.thrown THEN DependenciesCatch ELSE body.value

\* FSUtil.isFile on an output path
isFile(path) == path \in outFiles

buildOutputsExist(target, targetPath) ==
    LET entry == TargetDatabase_query(target.database, target.targetPath, targetPath)
    IN  IF entry # Undefined
        THEN \A i \in 1..Len(entry.outputs) : isFile(entry.outputs[i])
        ELSE TRUE

requiresRebuild(bundle, target, targetPath, entry) ==
    IF dependenciesModified(bundle, entry) THEN TRUE
    ELSE IF buildOutputsExist(target, targetPath) = FALSE THEN TRUE
    ELSE FALSE

handleBuildFileStarted(w, request) ==
    Emit(w, "file:started", request.input.bundle, request.input.sourcePath,
         request.compilerName)

\* faulty variant: completion decided on pendingFiles alone
checkPackageComplete_noSubmit(bundle) == 0 = bundle.pendingFiles

checkPackageComplete(bundle) ==
    bundle.submitComplete /\ 0 = bundle.pendingFiles

\* faulty variant: off by one package
checkProjectComplete_early(w) == w.builder.pendingPackages <= 1

checkProjectComplete(w) == 0 = w.builder.pendingPackages

\* the three resets of startPackageBuild
ResetPackage(w, bundle) ==
    [ w EXCEPT !.packages[bundle].submitComplete = FALSE,
               !.packages[bundle].pendingFiles   = 0,
               !.packages[bundle].errorCount     = 0 ]

\* faulty variant: the package is reset without its package:started event
startPackageBuild_silent(w, bundle, target) ==
    ResetPackage(w, bundle)

startPackageBuild(w, bundle, target) ==
    Emit(ResetPackage(w, bundle), "package:started", bundle, NoPath, target)

\* faulty variant: the event is emitted before the workers are shut down
completeProjectBuild_emitFirst(w) ==
    CompilerCache_shutdown(Emit(w, "project:complete", "", NoPath, ""))

completeProjectBuild(w) ==
    Emit(CompilerCache_shutdown(w), "project:complete", "", NoPath, "")

\* Filesystem.writeFileSync of save: the record of the call notes the events
\* emitted before it and the dirty flag of the database that is saved
WriteRecord(w, path, db) == [ path |-> path, at |-> Len(w.events), dirty |-> db.dirty ]

\* faulty variant: the flag is reset, the file is not written
SavePackageDatabase_flagOnly(w0, bundle) ==
    [ w0 EXCEPT !.packages[bundle].database.dirty = FALSE ]

\* db.save(path) of a package's source database: the file, the flag
SavePackageDatabase(w0, bundle) ==
    Call(LAMBDA w :
        [ w EXCEPT !.dbFiles = MapPut(@, w.packages[bundle].databasePath,
                                      SourceDatabase_save(w.packages[bundle].database)),
                   !.writes  = Append(@, WriteRecord(w, w.packages[bundle].databasePath,
                                                     w.packages[bundle].database)),
                   !.packages[bundle].database.dirty = FALSE ],
         w0)

\* db.save(path) of a target's database
SaveTargetFile(w0, bundle, target) ==
    Call(LAMBDA w :
        [ w EXCEPT !.dbFiles = MapPut(@, w.packages[bundle].targets[target].databasePath,
                                      TargetDatabase_save(w.packages[bundle].targets[target].database)),
                   !.writes  = Append(@, WriteRecord(w, w.packages[bundle].targets[target].databasePath,
                                                     w.packages[bundle].targets[target].database)),
                   !.packages[bundle].targets[target].database.dirty = FALSE ],
         w0)

\* faulty variant: the source database is never saved
SaveSourceDatabase_never(w0, bundle) == w0

\* completePackageBuild, first statement: save the source database if dirty
SaveSourceDatabase(w0, bundle) ==
    Call(LAMBDA w :
        IF w.packages[bundle].database.dirty THEN SavePackageDatabase(w, bundle) ELSE w,
         w0)

\* completePackageBuild, second statement: save the target database if dirty
SaveTargetDatabase(w0, bundle, target) ==
    Call(LAMBDA w :
        IF w.packages[bundle].targets[target].database.dirty
        THEN SaveTargetFile(w, bundle, target)
        ELSE w,
         w0)

\* completePackageBuild: submitComplete, pendingFiles, the package:complete event
EmitPackageComplete(w0, bundle) ==
    Call(LAMBDA w :
        Emit([ w EXCEPT !.packages[bundle].submitComplete = TRUE,
                        !.packages[bundle].pendingFiles   = 0 ],
             "package:complete", bundle, NoPath, w.packages[bundle].errorCount),
         w0)

\* completePackageBuild: errorCount = 0 and pendingPackages--
CountPackageDone(w, bundle) ==
    [ w EXCEPT !.packages[bundle].errorCount = 0,
               !.builder.pendingPackages = @ - 1 ]

\* completePackageBuild, last statement
CompleteProjectIfDone(w0) ==
    Call(LAMBDA w :
        IF checkProjectComplete(w) THEN completeProjectBuild(w) ELSE w,
         w0)

completePackageBuild(w, bundle, target) ==
    CompleteProjectIfDone(
        CountPackageDone(
            EmitPackageComplete(
                SaveTargetDatabase(SaveSourceDatabase(w, bundle), bundle, target),
                bundle),
            bundle))

\* "if (this.checkPackageComplete(bundle, target)) this.completePackageBuild(...)"
CompletePackageIfDone(w0, bundle, target) ==
    Call(LAMBDA w :
        IF checkPackageComplete(w.packages[bundle])
        THEN completePackageBuild(w, bundle, target)
        ELSE w,
         w0)

\* faulty variant: the answered file stays counted
FileAnswered_uncounted(w, bundle, target) ==
    CompletePackageIfDone(w, bundle, target)

\* "bundle.pendingFiles--" and the check that ends both result handlers
FileAnswered(w, bundle, target) ==
    CompletePackageIfDone([ w EXCEPT !.packages[bundle].pendingFiles = @ - 1 ],
                          bundle, target)

handleBuildFileSkipped(w, result) ==
    FileAnswered(
        Emit(w, "file:skipped", result.input.bundle, result.input.sourcePath, result.reason),
        result.input.bundle, result.input.target)

\* handleBuildFileComplete: the body of "if (re === undefined)"
CreateReferenced(db, plats, rootPath, sourcePath, ref) ==
    Call(LAMBDA c :
        Call(LAMBDA ne :
            SourceDatabase_update(c, rootPath, ref,
                [ ne EXCEPT !.platform   = determinePlatform(plats, ne.properties),
                            !.references = Append(@, sourcePath) ]),
             SourceDatabase_query(c, rootPath, ref)),
         SourceDatabase_create(db, rootPath, ref))

\* handleBuildFileComplete: "srcEnt.dependencies.push(refs[i])"
PushDependency(db0, rootPath, sourcePath, ref) ==
    Call(LAMBDA db :
        SourceDatabase_update(db, rootPath, sourcePath,
            [ SourceDatabase_query(db, rootPath, sourcePath)
                EXCEPT !.dependencies = Append(@, ref) ]),
         db0)

\* the loop of handleBuildFileComplete over result.references from position i
RECURSIVE AddReferences(_, _, _, _, _, _)
AddReferences(db0, plats, rootPath, sourcePath, refs, i) ==
    Call(LAMBDA db :
        IF i > Len(refs) THEN db
        ELSE AddReferences(
                 PushDependency(
                     IF SourceDatabase_query(db, rootPath, refs[i]) = Undefined
                     THEN CreateReferenced(db, plats, rootPath, sourcePath, refs[i])
                     ELSE db,
                     rootPath, sourcePath, refs[i]),
                 plats, rootPath, sourcePath, refs, i + 1),
         db0)

\* handleBuildFileComplete, the branch of result.success
RecordSuccess(w0, result) ==
    Call(LAMBDA w :
        LET bundle == result.input.bundle
            target == result.input.target
        IN  Emit([ w EXCEPT
                     !.packages[bundle].database =
                         AddReferences(@, w.builder.platforms, w.packages[bundle].sourcePath,
                                       result.input.sourcePath, result.references, 1),
                     !.packages[bundle].targets[target].database =
                         TargetDatabase_create(@, w.packages[bundle].targets[target].targetPath,
                                               result.input.sourcePath, result.input.targetPath,
                                               result.compilerName, result.outputs) ],
                 "file:success", bundle, result.input.sourcePath, result.outputs),
         w0)

\* faulty variant: the error is reported but not counted
RecordError_uncounted(w, result) ==
    Emit(w, "file:error", result.input.bundle, result.input.sourcePath, result.errors)

\* handleBuildFileComplete, the else branch
RecordError(w, result) ==
    Emit([ w EXCEPT !.packages[result.input.bundle].errorCount = @ + 1 ],
         "file:error", result.input.bundle, result.input.sourcePath, result.errors)

handleBuildFileComplete(w, result) ==
    FileAnswered(
        IF result.success THEN RecordSuccess(w, result) ELSE RecordError(w, result),
        result.input.bundle, result.input.target)

\* CompilerCache: send BUILD_REQUEST for the head of the queue of a worker
CompilerCache_dispatch(w0, type) ==
    Call(LAMBDA w :
        handleBuildFileStarted(
            [ w EXCEPT !.compilers.workers[type].state = "Busy" ],
            [ input        |-> w.compilers.workers[type].queue[1],
              compilerName |-> Pipeline[type] ]),
         w0)

\* faulty variant: the new request goes to the front of the queue
CompilerCache_enqueue_front(w0, input) ==
    Call(LAMBDA w :
        IF w.compilers.workers[input.resourceType].state = "Idle"
        THEN CompilerCache_dispatch(
                 [ w EXCEPT !.compilers.workers[input.resourceType].queue = <<input>> \o @ ],
                 input.resourceType)
        ELSE [ w EXCEPT !.compilers.workers[input.resourceType].queue = <<input>> \o @ ],
         w0)

\* CompilerCache: append to the queue of the worker, dispatch if it is idle
CompilerCache_enqueue(w0, input) ==
    Call(LAMBDA w :
        IF w.compilers.workers[input.resourceType].state = "Idle"
        THEN CompilerCache_dispatch(
                 [ w EXCEPT !.compilers.workers[input.resourceType].queue = Append(@, input) ],
                 input.resourceType)
        ELSE [ w EXCEPT !.compilers.workers[input.resourceType].queue = Append(@, input) ],
         w0)

\* CompilerCache: a request without a worker is skipped at once
CompilerCache_route(w0, input) ==
    Call(LAMBDA w :
        IF input.resourceType \notin DOMAIN w.compilers.workers
        THEN handleBuildFileSkipped(w, [input |-> input, reason |-> NO_COMPILER])
        ELSE CompilerCache_enqueue(w, input),
         w0)

\* CompilerCache.build
CompilerCache_build(w, targetPath, input) ==
    CompilerCache_route([ w EXCEPT !.compilers.calls = Append(@, input) ], input)

PLATFORM_MISMATCH == "Source file doesn't match target platform"
UP_TO_DATE == "File is up-to-date"

\* buildFile: "srcDbEntry.platform = platform" on the entry create returned
SetEntryPlatform(db0, plats, rootPath, sourcePath) ==
    Call(LAMBDA db :
        Call(LAMBDA e :
            SourceDatabase_update(db, rootPath, sourcePath,
                [ e EXCEPT !.platform = determinePlatform(plats, e.properties) ]),
             SourceDatabase_query(db, rootPath, sourcePath)),
         db0)

\* buildFile: db.create and "srcDbEntry.platform = platform"
CreateSourceEntry(w0, absolutePath, bundle) ==
    Call(LAMBDA w :
        [ w EXCEPT !.packages[bundle].database =
            SetEntryPlatform(
                SourceDatabase_create(@, w.packages[bundle].sourcePath, absolutePath),
                w.builder.platforms, w.packages[bundle].sourcePath, absolutePath) ],
         w0)

\* buildFile: the input object handed to compilers.build
BuildInput(w, absolutePath, bundle, target) ==
    Call(LAMBDA e :
        [ bundle       |-> bundle,
          target       |-> target,
          sourcePath   |-> absolutePath,
          targetPath   |-> targetPathFor(w.packages[bundle].targets[target].targetPath,
                                         e.resourceName),
          resourceName |-> e.resourceName,
          resourceType |-> e.resourceType,
          platform     |-> e.platform ],
         SourceDatabase_query(w.packages[bundle].database, w.packages[bundle].sourcePath,
                              absolutePath))

\* faulty variant: the submitted file is not counted
CountPending_never(w, bundle) == w

\* buildFile: "bundle.pendingFiles++"
CountPending(w, bundle) == [ w EXCEPT !.packages[bundle].pendingFiles = @ + 1 ]

\* buildFile after the entry is created: skip on a platform mismatch, else submit
SubmitFile(w0, absolutePath, bundle, target) ==
    Call(LAMBDA w :
        Call(LAMBDA input :
            IF w.packages[bundle].targets[target].platformName # input.platform
            THEN Emit(w, "file:skipped", bundle, absolutePath, PLATFORM_MISMATCH)
            ELSE CompilerCache_build(CountPending(w, bundle), input.targetPath, input),
             BuildInput(w, absolutePath, bundle, target)),
         w0)

buildFile(w, absolutePath, bundle, target) ==
    SubmitFile(CreateSourceEntry(w, absolutePath, bundle), absolutePath, bundle, target)

\* checkEntry: the value of rebuild
Rebuild(w, bundle, target, srcPath) ==
    Call(LAMBDA srcEntry :
        IF srcEntry # Undefined
        THEN requiresRebuild(w.packages[bundle], w.packages[bundle].targets[target],
                             targetPathFor(w.packages[bundle].targets[target].targetPath,
                                           srcEntry.resourceName),
                             srcEntry)
        ELSE TRUE,
         SourceDatabase_query(w.packages[bundle].database, w.packages[bundle].sourcePath,
                              srcPath))

\* the callback buildPackage hands to walkTree
checkEntry(w0, bundle, target, srcPath0) ==
    Call2(LAMBDA w, srcPath :
        IF Rebuild(w, bundle, target, srcPath)
        THEN buildFile(w, srcPath, bundle, target)
        ELSE Emit(w, "file:skipped", bundle, srcPath, UP_TO_DATE),
          w0, srcPath0)

\* lib/fsutility.js walkTree with ignoreHidden: the names of a directory the
\* callback is invoked for, in readdir order (the source directories of the
\* model hold files only)
walkTree(names) == SelectSeq(names, LAMBDA n : n[1] # ".")

RECURSIVE WalkFrom(_, _, _, _, _)
WalkFrom(w, bundle, target, names, i) ==
    IF i > Len(names) THEN w
    ELSE WalkFrom(checkEntry(w, bundle, target, Path_join(SourceDir(bundle), names[i])),
                  bundle, target, names, i + 1)

\* buildPackage: "bundle.submitComplete = true"
MarkSubmitComplete(w, bundle) == [ w EXCEPT !.packages[bundle].submitComplete = TRUE ]

\* buildPackage once the Package and the Target are at hand
BuildTarget(w, packageName, target) ==
    CompletePackageIfDone(
        MarkSubmitComplete(
            WalkFrom(startPackageBuild(w, packageName, target), packageName, target,
                     walkTree(readdirSync(packageName)), 1),
            packageName),
        packageName, target)

buildPackage(w0, packageName) ==
    Call(LAMBDA w :
        BuildTarget(
            Package_targetPlatform(Project_contentPackage(w, packageName),
                                   packageName, w.builder.platform),
            packageName, PlatformKey(w.builder.platform)),
         w0)

RECURSIVE BuildPackagesFrom(_, _, _)
BuildPackagesFrom(w, keys, i) ==
    IF i > Len(keys) THEN w
    ELSE BuildPackagesFrom(buildPackage(w, keys[i]), keys, i + 1)

\* handleCompilersReady: "this.pendingPackages = keys.length"
SetPendingPackages(w0) ==
    Call(LAMBDA w :
        [ w EXCEPT !.builder.pendingPackages = Len(ObjectKeys(w)) ],
         w0)

\* faulty variant: no completion for a project without packages
CompleteIfNoPackages_never(w) == w

\* handleCompilersReady: "if (0 == keys.length) this.completeProjectBuild(project)"
CompleteIfNoPackages(w0) ==
    Call(LAMBDA w :
        IF 0 = Len(ObjectKeys(w)) THEN completeProjectBuild(w) ELSE w,
         w0)

handleCompilersReady(w0) ==
    Call(LAMBDA w :
        CompleteIfNoPackages(BuildPackagesFrom(SetPendingPackages(w), ObjectKeys(w), 1)),
         w0)

\* faulty variant: the packages are submitted without waiting for ready
buildProject_eager(w, targetPlatform) ==
    handleCompilersReady(
        [ Project_cachePackages([ w EXCEPT !.packages = EmptyMap ], layout.keys, 1)
            EXCEPT !.builder   = [ NewBuilder EXCEPT !.platform = targetPlatform ],
                   !.compilers = createCompilerCache(Pipeline),
                   !.events    = <<>>,
                   !.writes    = <<>> ])

\* Project.create and cachePackages (the build driver's loadProject), then
\* Builder.prototype.buildProject
buildProject(w, targetPlatform) ==
    [ Project_cachePackages([ w EXCEPT !.packages = EmptyMap ], layout.keys, 1)
        EXCEPT !.builder   = [ NewBuilder EXCEPT !.platform = targetPlatform ],
               !.compilers = createCompilerCache(Pipeline),
               !.events    = <<>>,
               !.writes    = <<>> ]

(***************************************************************************)
(* The data compiler processes (samples/copydc).                           *)
(***************************************************************************)
\* copydc makeOutputPath in persistent mode
makeOutputPath(args, resourceType) ==
    IF Len(resourceType) > 0
    THEN [dir |-> args.targetPath.dir, name |-> args.targetPath.name \o <<".">> \o resourceType]
    ELSE args.targetPath

\* the references a compiler may report for a request: none, or one file of
\* the source directory that it read (the source file itself included)
ReferenceChoices(request) ==
    {<<>>} \cup
    { <<Path_join(request.sourcePath.dir, readdirSync(request.bundle)[i])>> :
        i \in 1..Len(readdirSync(request.bundle)) }

\* the choices for the request in flight at a worker
WorkerReferenceChoices(type) ==
    IF compilers.workers[type].state = "Busy"
    THEN ReferenceChoices(compilers.workers[type].queue[1])
    ELSE {}

\* copydc processExecute / processComplete: the BUILD_RESULT for a request
BuildResult(request, success, references) ==
    [ input           |-> request,
      success         |-> success,
      errors          |-> IF success THEN <<>> ELSE <<"bad input">>,
      outputs         |-> IF success
                          THEN <<makeOutputPath(request,
                                    parseResourcePath(request.sourcePath).resourceType)>>
                          ELSE <<>>,
      references      |-> IF success THEN references ELSE <<>>,
      compilerName    |-> Pipeline[request.resourceType],
      compilerVersion |-> 1 ]

\* CompilerCache on VERSION_DATA: the worker is idle; ready once all are
CompilerCache_onVersionData(w0, type) ==
    Call(LAMBDA w :
        [ w EXCEPT !.compilers.workers[type].state = "Idle",
                   !.compilers.workers[type].version = 1,
                   !.compilers.ready =
                       \A t \in DOMAIN w.compilers.workers :
                           t = type \/ w.compilers.workers[t].state = "Idle" ],
         w0)

\* CompilerCache: emit ready to the Builder when the last worker has answered
CompilerCache_emitReady(w0) ==
    Call(LAMBDA w :
        IF w.compilers.ready THEN handleCompilersReady(w) ELSE w,
         w0)

\* CompilerCache after a BUILD_RESULT: send the worker its next request
CompilerCache_next(w0, type) ==
    Call(LAMBDA w :
        IF /\ w.compilers.workers[type].state = "Idle"
           /\ Len(w.compilers.workers[type].queue) > 0
        THEN CompilerCache_dispatch(w, type)
        ELSE w,
         w0)

\* CompilerCache on BUILD_RESULT: the worker is idle, complete is emitted
CompilerCache_onBuildResult(w, type, result) ==
    CompilerCache_next(
        handleBuildFileComplete(
            [ w EXCEPT !.compilers.workers[type].state = "Idle",
                       !.compilers.workers[type].queue = Tail(@) ],
            result),
        type)

(***************************************************************************)
(* Bookkeeping for the properties.                                         *)
(***************************************************************************)
HasEvent(evs, name) == \E i \in 1..Len(evs) : evs[i].name = name

\* the outputs of the last successful build, per target directory and source
BuiltKey(request) == <<request.targetPath.dir, request.sourcePath>>

\* the run is over when project:complete has been emitted
PhaseOf(w) == IF HasEvent(w.events, "project:complete") THEN "done" ELSE "building"

\* the summary of a finished run that the next run is compared with
Finish(w, g) ==
    IF HasEvent(w.events, "project:complete")
    THEN [ g EXCEPT !.unchanged = TRUE,
                    !.prevAllOk =
                        ~ \E i \in 1..Len(w.events) :
                               \/ w.events[i].name = "file:error"
                               \/ /\ w.events[i].name = "file:skipped"
                                  /\ w.events[i].info = NO_COMPILER ]
    ELSE g

\* the process leaves the world w behind
Commit(w0, g) ==
    \E w \in {w0} :
        /\ dbFiles' = w.dbFiles
        /\ targetDirs' = w.targetDirs
        /\ packages' = w.packages
        /\ builder' = w.builder
        /\ compilers' = w.compilers
        /\ events' = w.events
        /\ writes' = w.writes
        /\ UNCHANGED << api, fn, fs >>
        /\ phase' = IF ~w.compilers.ready THEN "spawning" ELSE PhaseOf(w)
        /\ ghost' = Finish(w, g)

(***************************************************************************)
(* lib/fsutility.js: FSEntry, FSScanner, FSDiffer, walkTree.  A disk is a  *)
(* function from the absolute paths that exist (sequences of names that    *)
(* start with FsRoot) to their fs.Stats; a Date is its milliseconds.       *)
(***************************************************************************)
FsRoot == << <<"r">> >>

\* the order in which readdirSync lists the names of a directory
NameOrder == << <<".","h">>, <<"d">>, <<"e">>, <<"f">> >>

FsReaddirSync(disk, absPath) ==
    SelectSeq(NameOrder, LAMBDA n : Append(absPath, n) \in DOMAIN disk)

Stats_isFile(stat) == stat.mode = "file"

Stats_isDirectory(stat) == stat.mode = "dir"

\* Path.relative(root, path) and Path.join(root, relative) below root
FsPath_relative(root, path) == SubSeq(path, Len(root) + 1, Len(path))

FsPath_join(root, rel) == root \o rel

\* new FSEntry(rootPath, entryName, absPath, statInfo)
FSEntry(rootPath, entryName, absPath, statInfo) ==
    [ root |-> rootPath, name |-> entryName, path |-> absPath, stat |-> statInfo,
      seen |-> FALSE, dirs |-> <<>>, files |-> <<>>,
      tabd |-> EmptyMap, tabf |-> EmptyMap ]

\* FSScanner.scanDirectory; ScanFrom is its loop over contents from position i
RECURSIVE scanDirectory(_, _, _, _, _), ScanFrom(_, _, _, _, _, _)
scanDirectory(disk, options, thisPath, thisName, thisStat) ==
    ScanFrom(disk, options, thisPath, FsReaddirSync(disk, thisPath), 1,
             FSEntry(options.from, thisName, thisPath, thisStat))

ScanFrom(disk, options, thisPath, contents, i, parent) ==
    IF i > Len(contents) THEN parent
    ELSE LET name == contents[i]
             abs  == Append(thisPath, name)
             stat == disk[abs]
         IN  ScanFrom(disk, options, thisPath, contents, i + 1,
                 IF options.ignoreHidden /\ name[1] = "." THEN parent
                 ELSE IF Stats_isDirectory(stat) /\ options.recursive
                 THEN [ parent EXCEPT
                          !.tabd = MapPut(@, name, Len(parent.dirs)),
                          !.dirs = Append(@, scanDirectory(disk, options, abs, name, stat)) ]
                 ELSE IF Stats_isDirectory(stat)
                 THEN [ parent EXCEPT
                          !.tabd = MapPut(@, name, Len(parent.dirs)),
                          !.dirs = Append(@, FSEntry(options.from, name, abs, stat)) ]
                 ELSE IF Stats_isFile(stat)
                 THEN [ parent EXCEPT
                          !.tabf  = MapPut(@, name, Len(parent.files)),
                          !.files = Append(@, FSEntry(options.from, name, abs, stat)) ]
                 ELSE parent)

\* FSScanner.scanTree: the root entry has the empty name
scanTree(disk, options) ==
    scanDirectory(disk, options, options.from, <<>>, disk[options.from])

\* JSON.stringify of an fs.Stats: the Dates as ISO strings
StatsToJSON(stat) ==
    [ mode |-> stat.mode, size |-> stat.size, mtime |-> DateToJSON(stat.mtime) ]

\* treeToJSON: nodeToObject, with the two arrays still to be filled
nodeToObject(node) ==
    [ name  |-> node.name,
      path  |-> FsPath_relative(node.root, node.path),
      stat  |-> StatsToJSON(node.stat),
      dirs  |-> <<>>,
      files |-> <<>> ]

\* faulty variant: the subdirectories are written without their content
treeToObject_flat(node) ==
    [ nodeToObject(node) EXCEPT
        !.files = [i \in 1..Len(node.files) |-> nodeToObject(node.files[i])],
        !.dirs  = [i \in 1..Len(node.dirs)  |-> nodeToObject(node.dirs[i])] ]

RECURSIVE treeToObject(_)
treeToObject(node) ==
    [ nodeToObject(node) EXCEPT
        !.files = [i \in 1..Len(node.files) |-> nodeToObject(node.files[i])],
        !.dirs  = [i \in 1..Len(node.dirs)  |-> treeToObject(node.dirs[i])] ]

\* FSEntry.treeToJSON: the parsed form of the string it returns
treeToJSON(root) == [ root |-> root.root, nodes |-> treeToObject(root) ]

\* treeFromJSON: objToEntry
objToEntry(rootPath, obj) ==
    FSEntry(rootPath, obj.name, FsPath_join(rootPath, obj.path),
            [ mode |-> obj.stat.mode, size |-> obj.stat.size,
              mtime |-> NewDate(obj.stat.mtime) ])

\* treeFromJSON: objectToTree; both loops store every index under obj.name,
\* the name of the directory itself, so the last index is what stays
RECURSIVE objectToTree(_, _)
objectToTree(rootPath, obj) ==
    [ objToEntry(rootPath, obj) EXCEPT
        !.tabf  = IF Len(obj.files) > 0
                  THEN MapPut(EmptyMap, obj.name, Len(obj.files) - 1) ELSE EmptyMap,
        !.files = [i \in 1..Len(obj.files) |-> objToEntry(rootPath, obj.files[i])],
        !.tabd  = IF Len(obj.dirs) > 0
                  THEN MapPut(EmptyMap, obj.name, Len(obj.dirs) - 1) ELSE EmptyMap,
        !.dirs  = [i \in 1..Len(obj.dirs) |-> objectToTree(rootPath, obj.dirs[i])] ]

treeFromJSON(json) == objectToTree(json.root, json.nodes)

indexOfFile(entry, filename) ==
    IF filename \in DOMAIN entry.tabf THEN entry.tabf[filename] ELSE -1

indexOfDirectory(entry, dirname) ==
    IF dirname \in DOMAIN entry.tabd THEN entry.tabd[dirname] ELSE -1

createDifferenceList(root) ==
    [ rootPath |-> root, additions |-> <<>>, deletions |-> <<>>, changes |-> <<>>,
      count |-> 0 ]

AddDeletion(diff, entry) ==
    [ diff EXCEPT !.deletions = Append(@, entry), !.count = @ + 1 ]

AddAddition(diff, entry) ==
    [ diff EXCEPT !.additions = Append(@, entry), !.count = @ + 1 ]

AddChange(diff, fa, fb) ==
    [ diff EXCEPT !.changes = Append(@, [prev |-> fa, curr |-> fb]), !.count = @ + 1 ]

\* the loops of diffFiles and diffDirectory work on acc = [diff, seen]: the
\* difference list and the 0-based indices of the entries of b that were
\* marked seen
RECURSIVE DiffFilesOfA(_, _, _, _)
DiffFilesOfA(a, b, acc, ia) ==
    IF ia >= Len(a.files) THEN acc
    ELSE LET fa == a.files[ia + 1]
             ib == indexOfFile(b, fa.name)
         IN  DiffFilesOfA(a, b,
                 IF ib >= 0
                 THEN LET fb == b.files[ib + 1]
                      IN  [ diff |-> IF \/ fa.stat.size # fb.stat.size
                                        \/ fa.stat.mtime # fb.stat.mtime
                                     THEN AddChange(acc.diff, fa, fb)
                                     ELSE acc.diff,
                            seen |-> acc.seen \cup {ib} ]
                 ELSE [ acc EXCEPT !.diff = AddDeletion(@, fa) ],
                 ia + 1)

\* the second loop of both: the entries of b that were not seen
RECURSIVE DiffUnseen(_, _, _)
DiffUnseen(entriesB, acc, ib) ==
    IF ib >= Len(entriesB) THEN acc.diff
    ELSE DiffUnseen(entriesB,
             IF ~(entriesB[ib + 1].seen \/ ib \in acc.seen)
             THEN [ acc EXCEPT !.diff = AddAddition(@, entriesB[ib + 1]) ]
             ELSE acc,
             ib + 1)

diffFiles(a, b, diff) ==
    DiffUnseen(b.files, DiffFilesOfA(a, b, [diff |-> diff, seen |-> {}], 0), 0)

RECURSIVE diffDirectory(_, _, _, _), DiffDirsOfA(_, _, _, _, _)
DiffDirsOfA(a, b, acc, recursive, ia) ==
    IF ia >= Len(a.dirs) THEN acc
    ELSE LET da == a.dirs[ia + 1]
             ib == indexOfDirectory(b, da.name)
         IN  DiffDirsOfA(a, b,
                 IF ib >= 0
                 THEN [ diff |-> IF recursive
                                 THEN diffDirectory(da, b.dirs[ib + 1], acc.diff, recursive)
                                 ELSE acc.diff,
                        seen |-> acc.seen \cup {ib} ]
                 ELSE [ acc EXCEPT !.diff = AddDeletion(@, da) ],
                 recursive, ia + 1)

diffDirectory(a, b, diff, recursive) ==
    DiffUnseen(b.dirs,
               DiffDirsOfA(a, b, [diff |-> diffFiles(a, b, diff), seen |-> {}],
                           recursive, 0),
               0)

diffTree(root, a, b, recursive) ==
    diffDirectory(a, b, createDifferenceList(root), recursive)

\* "fb.seen = true" of diffFiles: the directory b after the first loop, from
\* position ia of a.files
RECURSIVE SeenFilesOfA(_, _, _)
SeenFilesOfA(a, b, ia) ==
    IF ia >= Len(a.files) THEN b
    ELSE LET ib == indexOfFile(b, a.files[ia + 1].name)
         IN  SeenFilesOfA(a,
                 IF ib >= 0 THEN [ b EXCEPT !.files[ib + 1].seen = TRUE ] ELSE b,
                 ia + 1)

\* "db.seen = true" of diffDirectory, after the recursive call on db: the
\* directory b after the first loop, from position ia of a.dirs
RECURSIVE SeenDirectory(_, _, _), SeenDirsOfA(_, _, _, _)
SeenDirsOfA(a, b, recursive, ia) ==
    IF ia >= Len(a.dirs) THEN b
    ELSE LET ib == indexOfDirectory(b, a.dirs[ia + 1].name)
         IN  SeenDirsOfA(a,
                 IF ib >= 0
                 THEN [ b EXCEPT !.dirs[ib + 1] =
                          [ (IF recursive
                             THEN SeenDirectory(a.dirs[ia + 1], b.dirs[ib + 1], recursive)
                             ELSE b.dirs[ib + 1]) EXCEPT !.seen = TRUE ] ]
                 ELSE b,
                 recursive, ia + 1)

\* the tree b as diffDirectory(a, b, diff, recursive) leaves it
SeenDirectory(a, b, recursive) ==
    SeenDirsOfA(a, SeenFilesOfA(a, b, 0), recursive, 0)

\* FSWatcher: the object its constructor returns, the interval timers of the
\* process (timers; setInterval hands out the ids from next) and the events
\* of the last update
FSWatcher(options) ==
    [ timerId |-> -1, rootPath |-> options.from, recursive |-> options.recursive,
      ignoreHidden |-> options.ignoreHidden, currentTree |-> Undefined,
      previousTree |-> Undefined, timers |-> {}, next |-> 1, emitted |-> <<>> ]

FSWatcher_scanTree(w, disk) ==
    scanTree(disk, [ from |-> w.rootPath, recursive |-> w.recursive,
                     ignoreHidden |-> w.ignoreHidden ])

FSWatcher_diffTree(w) ==
    diffTree(w.rootPath, w.previousTree, w.currentTree, w.recursive)

\* update: the events for a difference list
WatcherEvents(diffList) ==
    IF diffList.count > 0
    THEN << [name |-> "data", path |-> <<>>] >>
         \o [i \in 1..Len(diffList.deletions) |->
                [name |-> "remove", path |-> diffList.deletions[i].path]]
         \o [i \in 1..Len(diffList.additions) |->
                [name |-> "create", path |-> diffList.additions[i].path]]
         \o [i \in 1..Len(diffList.changes) |->
                [name |-> "change", path |-> diffList.changes[i].curr.path]]
    ELSE <<>>

\* update: swap the trees and scan
WatcherRescan(w, disk) ==
    [ w EXCEPT !.previousTree = w.currentTree,
               !.currentTree  = FSWatcher_scanTree(w, disk) ]

\* update: the diff, which marks currentTree, and the events
WatcherReport(w) ==
    [ w EXCEPT !.currentTree = SeenDirectory(w.previousTree, w.currentTree, w.recursive),
               !.emitted     = WatcherEvents(FSWatcher_diffTree(w)) ]

FSWatcher_update(w, disk) == WatcherReport(WatcherRescan(w, disk))

\* start and stop: "if (this.timerId != -1) { clearInterval(...); ... }"
WatcherClearTimer(w) ==
    IF w.timerId # -1
    THEN [ w EXCEPT !.timers = @ \ {w.timerId}, !.timerId = -1 ]
    ELSE w

\* start: the scan and setInterval
WatcherSetTimer(w, disk) ==
    [ w EXCEPT !.previousTree = FSWatcher_scanTree(w, disk),
               !.currentTree  = FSWatcher_scanTree(w, disk),
               !.timerId      = w.next,
               !.timers       = @ \cup {w.next},
               !.next         = @ + 1 ]

\* faulty variant: the running timer is not cleared
FSWatcher_start_leak(w, disk) == WatcherSetTimer(w, disk)

FSWatcher_start(w, disk) == WatcherSetTimer(WatcherClearTimer(w), disk)

FSWatcher_stop(w) == WatcherClearTimer(w)

\* "if (options.name)" on the options object of walkTree
OptionIsTrue(options, name) == name \in DOMAIN options /\ options[name]

\* walkTreeRecursive: the entries handed to the callback, in order; WalkDir
\* is its loop over contents from position i
RECURSIVE walkTreeRecursive(_, _, _, _), WalkDir(_, _, _, _, _, _)
walkTreeRecursive(disk, absPath, relPath, options) ==
    WalkDir(disk, absPath, relPath, options, FsReaddirSync(disk, absPath), 1)

WalkDir(disk, absPath, relPath, options, contents, i) ==
    IF i > Len(contents) THEN <<>>
    ELSE LET name == contents[i]
             abs  == Append(absPath, name)
             rel  == Append(relPath, name)
             stat == disk[abs]
         IN  (IF options["ignoreHidden"] /\ name[1] = "." THEN <<>>
              ELSE IF Stats_isDirectory(stat) \/ Stats_isFile(stat)
              THEN << [ rootPath |-> options["from"], absolutePath |-> abs,
                        relativePath |-> rel, name |-> name, stat |-> stat ] >>
                   \o (IF OptionIsTrue(options, "recurse") /\ Stats_isDirectory(stat)
                       THEN walkTreeRecursive(disk, abs, rel, options)
                       ELSE <<>>)
              ELSE <<>>)
             \o WalkDir(disk, absPath, relPath, options, contents, i + 1)

\* walkTree(callback, options): the options are from, recursive, ignoreHidden
FSUtil_walkTree(disk, options) ==
    walkTreeRecursive(disk, options["from"], <<>>, options)

\* no directory tree, no tool
NoFs == [ disk |-> EmptyMap, options |-> EmptyMap, json |-> EmptyMap, fresh |-> FALSE,
          op |-> "none", diffs |-> createDifferenceList(<<>>), visits |-> <<>>,
          recursive |-> FALSE, ops |-> 0,
          kept |-> <<>>, pair |-> <<0, 0>>,
          watch |-> Undefined, sampled |-> EmptyMap, before |-> EmptyMap ]

(***************************************************************************)
(* Initial state: a project that was never built.                          *)
(***************************************************************************)
\* nothing was built yet
NoGhost == [ builds |-> 0, changes |-> 0, prevPlatform |-> <<>>,
             prevAllOk |-> FALSE, unchanged |-> FALSE, rerun |-> FALSE,
             built |-> EmptyMap, missing |-> {},
             failed |-> {}, retry |-> {}, stale |-> {}, modified |-> {} ]

\* no database is driven directly, no function is called directly
NoOp == [name |-> "none", path |-> NoPath]
\* no project is created from configuration files
NoCfg == [ disk |-> EmptyMap, project |-> Undefined, thrown |-> FALSE,
           found |-> FALSE, op |-> NoOp, ops |-> 0 ]
NoApi == [ kind |-> "none", db |-> NewSourceDatabase, prev |-> NewSourceDatabase,
           files |-> EmptyMap, op |-> NoOp, ops |-> 0, cfg |-> NoCfg ]
NoCall == [ called |-> "none", input |-> <<>>, result |-> Undefined ]

SourcePaths(l) ==
    UNION { { Path_join(SourceDir(k), l.dir[k][i]) : i \in 1..Len(l.dir[k]) } :
            k \in DOMAIN l.dir }

Init ==
    /\ layout \in Layouts
    /\ srcStat = [f \in SourcePaths(layout) |-> [mtime |-> 1, size |-> 1]]
    /\ outFiles = {}
    /\ dbFiles = EmptyMap
    /\ targetDirs = {}
    /\ packages = EmptyMap
    /\ builder = NewBuilder
    /\ compilers = createCompilerCache(Pipeline)
    /\ events = <<>>
    /\ phase = "idle"
    /\ writes = <<>>
    /\ api = NoApi
    /\ fn = NoCall
    /\ fs = NoFs
    /\ ghost = NoGhost

(***************************************************************************)
(* Actions.                                                                *)
(***************************************************************************)
\* the sources whose last successful build for the target directories of
\* platform left an output that is no longer on disk
MissingOutputs(platform) ==
    { k[2] : k \in { k \in DOMAIN ghost.built :
                       /\ k[1][2] = PlatformKey(platform)
                       /\ k[2] \in DOMAIN srcStat
                       /\ \E i \in 1..Len(ghost.built[k]) : ghost.built[k][i] \notin outFiles } }

\* the sources, still on disk, of the keys for the target directories of
\* platform
SourcesOf(keys, platform) ==
    { k[2] : k \in { k \in keys : k[1][2] = PlatformKey(platform) /\ k[2] \in DOMAIN srcStat } }

\* a run of the build driver: load the project, start the Builder
StartBuild(targetPlatform) ==
    /\ phase \in {"idle", "done"}
    /\ ghost.builds < MaxBuilds
    /\ Commit(buildProject(World, targetPlatform),
              [ ghost EXCEPT !.builds = @ + 1,
                             !.rerun  = /\ phase = "done"
                                        /\ ghost.prevAllOk
                                        /\ ghost.unchanged
                                        /\ ghost.prevPlatform = PlatformKey(targetPlatform),
                             !.prevPlatform = PlatformKey(targetPlatform),
                             !.missing = MissingOutputs(targetPlatform),
                             !.retry = SourcesOf(ghost.failed, targetPlatform),
                             !.modified = SourcesOf(ghost.stale, targetPlatform),
                             !.stale = { k \in @ : k[1][2] # PlatformKey(targetPlatform) } ])
    /\ UNCHANGED << layout, srcStat, outFiles >>

\* a worker answers VERSION_QUERY; with the last answer the cache emits ready
WorkerVersionData(type) ==
    /\ phase = "spawning"
    /\ compilers.workers[type].state = "Spawning"
    /\ Commit(CompilerCache_emitReady(CompilerCache_onVersionData(World, type)), ghost)
    /\ UNCHANGED << layout, srcStat, outFiles >>

\* a worker answers the BUILD_REQUEST in flight with a BUILD_RESULT: it has
\* written its outputs, and the cache emits complete
WorkerBuildResult(type, success, references) ==
    /\ phase = "building"
    /\ compilers.workers[type].state = "Busy"
    /\ references \in WorkerReferenceChoices(type)
    /\ \E result \in {BuildResult(compilers.workers[type].queue[1], success, references)} :
           /\ outFiles' = outFiles \cup {result.outputs[i] : i \in 1..Len(result.outputs)}
           /\ Commit(CompilerCache_onBuildResult(World, type, result),
                     IF success
                     THEN [ghost EXCEPT !.built = MapPut(@, BuiltKey(result.input), result.outputs),
                                        !.failed = @ \ {BuiltKey(result.input)},
                                        !.stale = @ \ {BuiltKey(result.input)}]
                     ELSE [ghost EXCEPT !.failed = @ \cup {BuiltKey(result.input)}])
    /\ UNCHANGED << layout, srcStat >>

\* between two runs the user changes the project on disk, writing the source
\* files in written
UserChange(written) ==
    /\ phase = "done"
    /\ ghost.builds < MaxBuilds
    /\ ghost.changes < MaxChanges
    /\ ghost' = [ ghost EXCEPT !.changes = @ + 1, !.unchanged = FALSE,
                               !.stale = @ \cup { k \in DOMAIN ghost.built : k[2] \in written } ]
    /\ UNCHANGED << layout, dbFiles, targetDirs, packages, builder, compilers, events, phase,
                    writes, api, fn, fs >>

\* a source file is written with new content of the same size
TouchSource(path) ==
    /\ UserChange({path})
    /\ srcStat' = [ srcStat EXCEPT ![path].mtime = @ + 1 ]
    /\ UNCHANGED outFiles

\* a source file changes size, its modification time restored
ResizeSource(path) ==
    /\ UserChange({path})
    /\ srcStat' = [ srcStat EXCEPT ![path].size = @ + 1 ]
    /\ UNCHANGED outFiles

\* a source file is deleted
DeleteSource(path) ==
    /\ UserChange({})
    /\ srcStat' = [ f \in DOMAIN srcStat \ {path} |-> srcStat[f] ]
    /\ UNCHANGED outFiles

\* an output file is deleted
DeleteOutput(path) ==
    /\ UserChange({})
    /\ outFiles' = outFiles \ {path}
    /\ UNCHANGED srcStat

WorkerAnswers(type) ==
    \E success \in BOOLEAN : \E references \in WorkerReferenceChoices(type) :
        WorkerBuildResult(type, success, references)

Next ==
    \/ \E targetPlatform \in TargetPlatforms : StartBuild(targetPlatform)
    \/ \E type \in DOMAIN Pipeline : WorkerVersionData(type)
    \/ \E type \in DOMAIN Pipeline : WorkerAnswers(type)
    \/ \E path \in DOMAIN srcStat : TouchSource(path)
    \/ \E path \in DOMAIN srcStat : ResizeSource(path)
    \/ \E path \in DOMAIN srcStat : DeleteSource(path)
    \/ \E path \in outFiles : DeleteOutput(path)

Spec == Init /\ [][Next]_vars

\* the worker processes run on their own: an answer that is due is given
LiveSpec ==
    /\ Spec
    /\ \A type \in DOMAIN Pipeline :
          WF_vars(WorkerVersionData(type)) /\ WF_vars(WorkerAnswers(type))

(***************************************************************************)
(* A database driven through its own methods: create, remove, save and the *)
(* load functions, in any order, on a source or on a target database.      *)
(***************************************************************************)
ApiLayout == [keys |-> <<"p">>, dir |-> [k \in {"p"} |-> <<A_T, B_I_T>>]]

ApiKinds == {"source", "target"}

\* rootPath of the calls: the directory the relative paths start from
ApiRoot(kind) ==
    IF kind = "source" THEN SourceDir("p") ELSE TargetDir("p", GENERIC_PLATFORM)

\* the source files the entries are made for
ApiSources == SourcePaths(ApiLayout)

\* the paths that key the entries: the source files of a source database,
\* their target paths of a target database
ApiKeys(kind) ==
    IF kind = "source" THEN ApiSources
    ELSE { targetPathFor(ApiRoot(kind), parseResourcePath(src).resourceName) :
             src \in ApiSources }

\* the source file built into a target path
ApiSourceOf(kind, path) ==
    CHOOSE src \in ApiSources :
        targetPathFor(ApiRoot(kind), parseResourcePath(src).resourceName) = path

\* the database files
ApiFiles(kind) ==
    IF kind = "source" THEN {SourceDbPath("p"), SourceDbPath("q")}
    ELSE {TargetDbPath("p", GENERIC_PLATFORM), TargetDbPath("p", IOS)}

ApiCreated(kind, db, path) ==
    IF kind = "source" THEN SourceDatabase_create(db, ApiRoot(kind), path)
    ELSE TargetDatabase_create(db, ApiRoot(kind), ApiSourceOf(kind, path), path,
                               "copy-t", <<>>)

ApiRemoved(kind, db, path) ==
    IF kind = "source" THEN SourceDatabase_remove(db, ApiRoot(kind), path)
    ELSE TargetDatabase_remove(db, ApiRoot(kind), path)

ApiQuery(kind, db, path) ==
    IF kind = "source" THEN SourceDatabase_query(db, ApiRoot(kind), path)
    ELSE TargetDatabase_query(db, ApiRoot(kind), path)

ApiSaved(kind, db) ==
    IF kind = "source" THEN SourceDatabase_save(db) ELSE TargetDatabase_save(db)

ApiLoaded(kind, files, path) ==
    IF kind = "source" THEN loadSourceDatabase(files, path)
    ELSE loadTargetDatabase(files, path)

DbInit ==
    /\ layout = ApiLayout
    /\ srcStat = [f \in SourcePaths(ApiLayout) |-> [mtime |-> 1, size |-> 1]]
    /\ outFiles = {}
    /\ dbFiles = EmptyMap
    /\ targetDirs = {}
    /\ packages = EmptyMap
    /\ builder = NewBuilder
    /\ compilers = createCompilerCache(Pipeline)
    /\ events = <<>>
    /\ phase = "idle"
    /\ writes = <<>>
    /\ \E kind \in ApiKinds :
          api = [ kind |-> kind,
                  db |-> IF kind = "source" THEN NewSourceDatabase ELSE NewTargetDatabase,
                  prev |-> IF kind = "source" THEN NewSourceDatabase ELSE NewTargetDatabase,
                  files |-> EmptyMap, op |-> NoOp, ops |-> 0, cfg |-> NoCfg ]
    /\ fn = NoCall
    /\ fs = NoFs
    /\ ghost = NoGhost

\* one call: the database before it, the call, the database after it
ApiCall(name, path, db) ==
    /\ api.ops < MaxOps
    /\ api' = [ api EXCEPT !.prev = api.db, !.db = db,
                           !.op = [name |-> name, path |-> path], !.ops = @ + 1 ]
    /\ UNCHANGED << layout, srcStat, outFiles, dbFiles, targetDirs, packages, builder,
                    compilers, events, phase, writes, fn, fs, ghost >>

ApiCreate(path) ==
    /\ api.ops < MaxOps
    /\ \E db \in {ApiCreated(api.kind, api.db, path)} : ApiCall("create", path, db)

ApiRemove(path) ==
    /\ api.ops < MaxOps
    /\ \E db \in {ApiRemoved(api.kind, api.db, path)} : ApiCall("remove", path, db)

\* db.save(file): the file is written, the flag reset
ApiSave(file) ==
    /\ api.ops < MaxOps
    /\ api' = [ api EXCEPT !.prev = api.db, !.db.dirty = FALSE,
                           !.files = MapPut(@, file, ApiSaved(api.kind, api.db)),
                           !.op = [name |-> "save", path |-> file], !.ops = @ + 1 ]
    /\ UNCHANGED << layout, srcStat, outFiles, dbFiles, targetDirs, packages, builder,
                    compilers, events, phase, writes, fn, fs, ghost >>

\* db = loadSourceDatabase(file) or loadTargetDatabase(file)
ApiLoad(file) ==
    /\ api.ops < MaxOps
    /\ \E db \in {ApiLoaded(api.kind, api.files, file)} : ApiCall("load", file, db)

DbNext ==
    \/ \E path \in ApiKeys(api.kind) : ApiCreate(path)
    \/ \E path \in ApiKeys(api.kind) : ApiRemove(path)
    \/ \E file \in ApiFiles(api.kind) : ApiSave(file)
    \/ \E file \in ApiFiles(api.kind) : ApiLoad(file)

DbSpec == DbInit /\ [][DbNext]_vars

(***************************************************************************)
(* A function of the library called directly on a name.                    *)
(***************************************************************************)
Alphabet == {"a", "h", "."}

RECURSIVE NamesOfLength(_)
NamesOfLength(n) ==
    IF n = 0 THEN {<<>>}
    ELSE { Append(name, ch) : name \in NamesOfLength(n - 1), ch \in Alphabet }

\* the file names and resource names of the calls
Names == UNION { NamesOfLength(n) : n \in 0..MaxNameLen }

FnInit ==
    /\ layout = ApiLayout
    /\ srcStat = [f \in SourcePaths(ApiLayout) |-> [mtime |-> 1, size |-> 1]]
    /\ outFiles = {}
    /\ dbFiles = EmptyMap
    /\ targetDirs = {}
    /\ packages = EmptyMap
    /\ builder = NewBuilder
    /\ compilers = createCompilerCache(Pipeline)
    /\ events = <<>>
    /\ phase = "idle"
    /\ writes = <<>>
    /\ api = NoApi
    /\ \E name \in Names : fn = [ called |-> "none", input |-> name, result |-> Undefined ]
    /\ fs = NoFs
    /\ ghost = NoGhost

FnCall(name, result) ==
    /\ fn.called = "none"
    /\ fn' = [ fn EXCEPT !.called = name, !.result = result ]
    /\ UNCHANGED << layout, srcStat, outFiles, dbFiles, targetDirs, packages, builder,
                    compilers, events, phase, writes, api, fs, ghost >>

\* parseResourcePath(path) on a file of a source directory
CallParseResourcePath ==
    FnCall("parseResourcePath", parseResourcePath(Path_join(SourceDir("p"), fn.input)))

\* target.targetPathFor(resourceName) on the generic target of a package
CallTargetPathFor ==
    FnCall("targetPathFor", targetPathFor(TargetDir("p", GENERIC_PLATFORM), fn.input))

FnNext == CallParseResourcePath \/ CallTargetPathFor

FnSpec == FnInit /\ [][FnNext]_vars

(***************************************************************************)
(* The tools of sandbox/fsdump.js and tests/fsdiff.js and a walk, run on a *)
(* directory tree that changes between the runs.                           *)
(***************************************************************************)
FsF == <<"f">>
FsH == <<".","h">>
FsD == <<"d">>
FsE == <<"e">>

\* the paths a tree may hold below its root: r/f, r/.h, r/d, r/d/f, r/d/e,
\* r/d/e/f
FsUniverse ==
    { FsRoot \o p : p \in { <<FsF>>, <<FsH>>, <<FsD>>, <<FsD, FsF>>, <<FsD, FsE>>,
                            <<FsD, FsE, FsF>> } }

FsModeOf(path) == IF path[Len(path)] \in {FsD, FsE, FsRoot[1]} THEN "dir" ELSE "file"

FsParent(path) == SubSeq(path, 1, Len(path) - 1)

\* the trees: every path but the root has its parent directory
FsDisks ==
    { [ p \in S \cup {FsRoot} |-> [ mode |-> FsModeOf(p), size |-> 1, mtime |-> 1001 ] ] :
        S \in { S \in SUBSET FsUniverse : \A p \in S : FsParent(p) \in S \cup {FsRoot} } }

FsScanOptions ==
    { [ from |-> FsRoot, recursive |-> r, ignoreHidden |-> h ] : r, h \in BOOLEAN }

NoJson == [ root |-> <<>>, nodes |-> Undefined ]

FsInit ==
    /\ layout = ApiLayout
    /\ srcStat = [f \in SourcePaths(ApiLayout) |-> [mtime |-> 1, size |-> 1]]
    /\ outFiles = {}
    /\ dbFiles = EmptyMap
    /\ targetDirs = {}
    /\ packages = EmptyMap
    /\ builder = NewBuilder
    /\ compilers = createCompilerCache(Pipeline)
    /\ events = <<>>
    /\ phase = "idle"
    /\ writes = <<>>
    /\ api = NoApi
    /\ fn = NoCall
    /\ \E disk \in FsDisks : \E options \in FsScanOptions :
          fs = [ NoFs EXCEPT !.disk = disk, !.options = options, !.json = NoJson ]
    /\ ghost = NoGhost

\* one run of a tool, or one change of the tree: what it leaves behind
FsStep(op, next) ==
    /\ fs.ops < MaxFsOps
    /\ fs' = [ next EXCEPT !.op = op, !.ops = fs.ops + 1 ]
    /\ UNCHANGED << layout, srcStat, outFiles, dbFiles, targetDirs, packages, builder,
                    compilers, events, phase, writes, api, fn, ghost >>

\* the results of the last tool are those of no tool
FsCleared == [ fs EXCEPT !.diffs = createDifferenceList(<<>>), !.visits = <<>>,
                         !.recursive = FALSE ]

\* fsdump: scan the tree, write fsdump.json
FsDump ==
    FsStep("dump", [ FsCleared EXCEPT !.json = treeToJSON(scanTree(fs.disk, fs.options)),
                                      !.fresh = TRUE ])

\* fsdiff: scan the tree, load fsdump.json, diff the loaded tree against
\* the scanned one
FsDiff ==
    /\ fs.json # NoJson
    /\ \E curr \in {scanTree(fs.disk, fs.options)} :
       \E prev \in {treeFromJSON(fs.json)} :
          /\ curr.root = prev.root
          /\ FsStep("diff", [ FsCleared EXCEPT !.diffs = diffTree(curr.root, prev, curr, TRUE) ])

\* walkTree(callback, {from, recursive, ignoreHidden: true})
FsWalk(recursive) ==
    FsStep("walk",
           [ FsCleared EXCEPT
               !.visits = FSUtil_walkTree(fs.disk, [ from |-> FsRoot, recursive |-> recursive,
                                                     ignoreHidden |-> TRUE ]),
               !.recursive = recursive ])

FsFiles == { p \in DOMAIN fs.disk : Stats_isFile(fs.disk[p]) }

\* a file is written with new content of the same size
FsTouch(path) ==
    FsStep("touch", [ FsCleared EXCEPT !.disk[path].mtime = @ + 1, !.fresh = FALSE ])

\* a file changes size, its modification time restored
FsResize(path) ==
    FsStep("resize", [ FsCleared EXCEPT !.disk[path].size = @ + 1, !.fresh = FALSE ])

\* a file or an empty directory is removed
FsRemove(path) ==
    /\ path # FsRoot
    /\ \A p \in DOMAIN fs.disk : p = path \/ FsParent(p) # path
    /\ FsStep("remove", [ FsCleared EXCEPT !.disk = [ p \in DOMAIN fs.disk \ {path} |-> fs.disk[p] ],
                                           !.fresh = FALSE ])

FsNext ==
    \/ FsDump
    \/ FsDiff
    \/ \E recursive \in BOOLEAN : FsWalk(recursive)
    \/ \E path \in FsFiles : FsTouch(path)
    \/ \E path \in FsFiles : FsResize(path)
    \/ \E path \in DOMAIN fs.disk : FsRemove(path)

FsSpec == FsInit /\ [][FsNext]_vars

(***************************************************************************)
(* FSDiffer.diffTree called directly on two trees that a program holds, on *)
(* the same trees more than once.                                          *)
(***************************************************************************)
FsFullScan == [ from |-> FsRoot, recursive |-> TRUE, ignoreHidden |-> FALSE ]

\* the trees, and the trees with one file written or resized
FsChangedDisks ==
    FsDisks
    \cup UNION { { [ d EXCEPT ![p].mtime = @ + 1 ] :
                      p \in { q \in DOMAIN d : FsModeOf(q) = "file" } } : d \in FsDisks }
    \cup UNION { { [ d EXCEPT ![p].size = @ + 1 ] :
                      p \in { q \in DOMAIN d : FsModeOf(q) = "file" } } : d \in FsDisks }

DiffInit ==
    /\ layout = ApiLayout
    /\ srcStat = [f \in SourcePaths(ApiLayout) |-> [mtime |-> 1, size |-> 1]]
    /\ outFiles = {}
    /\ dbFiles = EmptyMap
    /\ targetDirs = {}
    /\ packages = EmptyMap
    /\ builder = NewBuilder
    /\ compilers = createCompilerCache(Pipeline)
    /\ events = <<>>
    /\ phase = "idle"
    /\ writes = <<>>
    /\ api = NoApi
    /\ fn = NoCall
    /\ \E before \in FsDisks : \E after \in FsChangedDisks :
          fs = [ NoFs EXCEPT !.disk = after, !.options = FsFullScan, !.json = NoJson,
                             !.kept = << scanTree(before, FsFullScan),
                                         scanTree(after, FsFullScan) >> ]
    /\ ghost = NoGhost

\* diffs = FSDiffer.diffTree(root, kept[i], kept[j]): the list it returns,
\* and the tree kept[j] as the call leaves it
DiffKept(i, j) ==
    /\ fs.ops < MaxDiffCalls
    /\ fs' = [ fs EXCEPT !.op = "difftree", !.ops = @ + 1, !.pair = <<i, j>>,
                         !.diffs = diffTree(FsRoot, fs.kept[i], fs.kept[j], TRUE),
                         !.kept[j] = SeenDirectory(fs.kept[i], fs.kept[j], TRUE) ]
    /\ UNCHANGED << layout, srcStat, outFiles, dbFiles, targetDirs, packages, builder,
                    compilers, events, phase, writes, api, fn, ghost >>

DiffNext == \E i, j \in 1..2 : DiffKept(i, j)

DiffSpec == DiffInit /\ [][DiffNext]_vars

(***************************************************************************)
(* The configuration files as text on disk: the pipeline definition and    *)
(* the database files of package p, each absent, malformed or well-formed. *)
(***************************************************************************)
PIPELINE_FILE == <<"pipeline.json">>

\* the text of a file: the text of an object, or that text cut short, on
\* which JSON.parse throws a SyntaxError
Malformed(v) == [ malformed |-> TRUE, value |-> v ]
WellFormed(v) == [ malformed |-> FALSE, value |-> v ]

JSON_parse(text) == IF text.malformed THEN Thrown ELSE Returned(text.value)

\* Filesystem.readFileSync throws when there is no file
readFileSync(disk, path) ==
    IF path \in DOMAIN disk THEN Returned(disk[path]) ELSE Thrown

\* loadPipelineDefinition: "catch (err) { return {}; }" around the read and
\* the parse
loadPipelineDefinition(disk, path) ==
    IF readFileSync(disk, path).thrown THEN Returned(EmptyMap)
    ELSE IF JSON_parse(readFileSync(disk, path).value).thrown THEN Returned(EmptyMap)
    ELSE JSON_parse(readFileSync(disk, path).value)

\* the files that parse, as the objects JSON.parse returns
ParsedFiles(disk) ==
    [ path \in { q \in DOMAIN disk : ~disk[q].malformed } |-> disk[path].value ]

\* loadSourceDatabase and loadTargetDatabase on text: load is called for a
\* file that exists, and the exception of JSON.parse is not caught
LoadThrows(disk, path) == path \in DOMAIN disk /\ JSON_parse(disk[path]).thrown

\* Project.create
Project_create(disk) ==
    IF loadPipelineDefinition(disk, PIPELINE_FILE).thrown THEN Thrown
    ELSE Returned([ pipeline |-> loadPipelineDefinition(disk, PIPELINE_FILE).value,
                    packages |-> EmptyMap ])

\* Package.create on text
Package_createFrom(disk, packageName) ==
    IF LoadThrows(disk, SourceDbPath(packageName)) THEN Thrown
    ELSE Returned(Package_create([dbFiles |-> ParsedFiles(disk)], packageName))

\* Target.create on text
Target_createFrom(disk, packageName, platformName) ==
    IF LoadThrows(disk, TargetDbPath(packageName, platformName)) THEN Thrown
    ELSE Returned(Target_create([dbFiles |-> ParsedFiles(disk)], packageName, platformName))

\* the texts a configuration file may hold
CfgPipelineTexts == { Malformed(Pipeline), WellFormed(Pipeline) }

CfgSourceDbTexts ==
    { Malformed(SourceDatabase_save(NewSourceDatabase)),
      WellFormed(SourceDatabase_save(NewSourceDatabase)) }
    \cup { WellFormed(SourceDatabase_save(ApiCreated("source", NewSourceDatabase, path))) :
              path \in ApiKeys("source") }

CfgTargetDbTexts ==
    { Malformed(TargetDatabase_save(NewTargetDatabase)),
      WellFormed(TargetDatabase_save(NewTargetDatabase)) }
    \cup { WellFormed(TargetDatabase_save(ApiCreated("target", NewTargetDatabase, path))) :
              path \in ApiKeys("target") }

CfgTexts(path) ==
    IF path = PIPELINE_FILE THEN CfgPipelineTexts
    ELSE IF path = SourceDbPath("p") THEN CfgSourceDbTexts
    ELSE CfgTargetDbTexts

CfgPaths == { PIPELINE_FILE, SourceDbPath("p"), TargetDbPath("p", GENERIC_PLATFORM) }

CfgInit ==
    /\ layout = ApiLayout
    /\ srcStat = [f \in SourcePaths(ApiLayout) |-> [mtime |-> 1, size |-> 1]]
    /\ outFiles = {}
    /\ dbFiles = EmptyMap
    /\ targetDirs = {}
    /\ packages = EmptyMap
    /\ builder = NewBuilder
    /\ compilers = createCompilerCache(Pipeline)
    /\ events = <<>>
    /\ phase = "idle"
    /\ writes = <<>>
    /\ \E present \in SUBSET CfgPaths :
       \E pt \in CfgPipelineTexts : \E st \in CfgSourceDbTexts : \E tt \in CfgTargetDbTexts :
          api = [ NoApi EXCEPT !.cfg.disk =
                    [ path \in present |->
                        IF path = PIPELINE_FILE THEN pt
                        ELSE IF path = SourceDbPath("p") THEN st ELSE tt ] ]
    /\ fn = NoCall
    /\ fs = NoFs
    /\ ghost = NoGhost

\* one call or file write: what it leaves behind
CfgStep(name, path, next) ==
    /\ api.cfg.ops < MaxCfgOps
    /\ api' = [ api EXCEPT !.cfg = [ next EXCEPT !.op = [name |-> name, path |-> path],
                                                 !.ops = api.cfg.ops + 1 ] ]
    /\ UNCHANGED << layout, srcStat, outFiles, dbFiles, targetDirs, packages, builder,
                    compilers, events, phase, writes, fn, fs, ghost >>

\* project = Project.create(...)
CfgProjectCreate ==
    \E r \in {Project_create(api.cfg.disk)} :
        CfgStep("Project.create", PIPELINE_FILE,
                [ api.cfg EXCEPT !.thrown = r.thrown, !.found = FALSE,
                                 !.project = IF r.thrown THEN Undefined ELSE r.value ])

\* project.contentPackage('p'): get-or-insert
CfgContentPackage ==
    /\ api.cfg.project # Undefined
    /\ \E r \in {Package_createFrom(api.cfg.disk, "p")} :
          CfgStep("contentPackage", SourceDbPath("p"),
                  IF "p" \in DOMAIN api.cfg.project.packages
                  THEN [ api.cfg EXCEPT !.thrown = FALSE, !.found = TRUE ]
                  ELSE IF r.thrown THEN [ api.cfg EXCEPT !.thrown = TRUE, !.found = FALSE ]
                  ELSE [ api.cfg EXCEPT !.thrown = FALSE, !.found = FALSE,
                                        !.project.packages = MapPut(@, "p", r.value) ])

\* project.contentPackage('p').targetPlatform(''): get-or-insert
CfgTargetPlatform ==
    /\ api.cfg.project # Undefined
    /\ "p" \in DOMAIN api.cfg.project.packages
    /\ \E r \in {Target_createFrom(api.cfg.disk, "p", GENERIC_PLATFORM)} :
          CfgStep("targetPlatform", TargetDbPath("p", GENERIC_PLATFORM),
                  IF GENERIC_PLATFORM \in DOMAIN api.cfg.project.packages["p"].targets
                  THEN [ api.cfg EXCEPT !.thrown = FALSE, !.found = TRUE ]
                  ELSE IF r.thrown THEN [ api.cfg EXCEPT !.thrown = TRUE, !.found = FALSE ]
                  ELSE [ api.cfg EXCEPT !.thrown = FALSE, !.found = FALSE,
                                        !.project.packages["p"].targets =
                                            MapPut(@, GENERIC_PLATFORM, r.value) ])

\* a configuration file is written by hand
CfgWrite(path, text) ==
    /\ IF path \in DOMAIN api.cfg.disk THEN api.cfg.disk[path] # text ELSE TRUE
    /\ CfgStep("write", path,
               [ api.cfg EXCEPT !.thrown = FALSE, !.found = FALSE, !.disk = MapPut(@, path, text) ])

CfgNext ==
    \/ CfgProjectCreate
    \/ CfgContentPackage
    \/ CfgTargetPlatform
    \/ \E path \in CfgPaths : \E text \in CfgTexts(path) : CfgWrite(path, text)

CfgSpec == CfgInit /\ [][CfgNext]_vars

(***************************************************************************)
(* An FSWatcher on a directory tree that changes: start, stop, the ticks   *)
(* of its interval timers.                                                 *)
(***************************************************************************)
WatchInit ==
    /\ layout = ApiLayout
    /\ srcStat = [f \in SourcePaths(ApiLayout) |-> [mtime |-> 1, size |-> 1]]
    /\ outFiles = {}
    /\ dbFiles = EmptyMap
    /\ targetDirs = {}
    /\ packages = EmptyMap
    /\ builder = NewBuilder
    /\ compilers = createCompilerCache(Pipeline)
    /\ events = <<>>
    /\ phase = "idle"
    /\ writes = <<>>
    /\ api = NoApi
    /\ fn = NoCall
    /\ \E disk \in FsDisks : \E options \in FsScanOptions :
          fs = [ NoFs EXCEPT !.disk = disk, !.options = options, !.json = NoJson,
                             !.watch = FSWatcher(options) ]
    /\ ghost = NoGhost

\* one call, tick or change: what it leaves behind
WatchStep(op, next) ==
    /\ fs.ops < MaxWatchOps
    /\ fs' = [ next EXCEPT !.op = op, !.ops = fs.ops + 1 ]
    /\ UNCHANGED << layout, srcStat, outFiles, dbFiles, targetDirs, packages, builder,
                    compilers, events, phase, writes, api, fn, ghost >>

\* watcher.start(); sampled is the tree on disk at the last scan
WatchStart ==
    WatchStep("start", [ fs EXCEPT !.watch = FSWatcher_start(fs.watch, fs.disk),
                                   !.sampled = fs.disk ])

\* watcher.stop()
WatchStop ==
    WatchStep("stop", [ fs EXCEPT !.watch = FSWatcher_stop(fs.watch) ])

\* an interval timer that is active fires: update
WatchTick(id) ==
    /\ id \in fs.watch.timers
    /\ WatchStep("update", [ fs EXCEPT !.watch = FSWatcher_update(fs.watch, fs.disk),
                                       !.before = fs.sampled,
                                       !.sampled = fs.disk ])

\* a file is written
WatchTouch(path) ==
    /\ path \in DOMAIN fs.disk
    /\ WatchStep("touch", [ fs EXCEPT !.disk[path].mtime = @ + 1 ])

\* a file or an empty directory is removed
WatchRemove(path) ==
    /\ path # FsRoot
    /\ \A p \in DOMAIN fs.disk : p = path \/ FsParent(p) # path
    /\ WatchStep("remove", [ fs EXCEPT !.disk = [ p \in DOMAIN fs.disk \ {path} |-> fs.disk[p] ] ])

\* a file or a directory is created in a directory that exists
WatchCreate(path) ==
    /\ path \notin DOMAIN fs.disk
    /\ FsParent(path) \in DOMAIN fs.disk
    /\ WatchStep("create",
                 [ fs EXCEPT !.disk = [ p \in DOMAIN fs.disk \cup {path} |->
                                          IF p = path
                                          THEN [ mode |-> FsModeOf(p), size |-> 1, mtime |-> 1002 ]
                                          ELSE fs.disk[p] ] ])

WatchNext ==
    \/ WatchStart
    \/ WatchStop
    \/ \E id \in fs.watch.timers : WatchTick(id)
    \/ \E path \in FsFiles : WatchTouch(path)
    \/ \E path \in DOMAIN fs.disk : WatchRemove(path)
    \/ \E path \in FsUniverse : WatchCreate(path)

WatchSpec == WatchInit /\ [][WatchNext]_vars

(***************************************************************************)
(* Properties.                                                             *)
(***************************************************************************)
FileEvents == {"file:started", "file:skipped", "file:success", "file:error"}

\* the positions of the events of a name for a package among the first upto
EventsAt(name, packageName, upto) ==
    { i \in 1..upto : events[i].name = name /\ events[i].packageName = packageName }

\* package:complete has been emitted for the package in this run
PackageCompleted(packageName) ==
    EventsAt("package:complete", packageName, Len(events)) # {}

\* the file has a file:skipped event with the reason
SkippedFor(path, reason) ==
    \E i \in 1..Len(events) :
        /\ events[i].name = "file:skipped"
        /\ events[i].sourcePath = path
        /\ events[i].info = reason

\* C1: a second run for the same platform, after a run in which every
\* submitted file succeeded and with nothing changed on disk in between,
\* emits no file:started, file:success or file:error event, and all its
\* file:skipped events carry the up-to-date reason.
C1_Idempotent ==
    ghost.rerun =>
        \A i \in 1..Len(events) :
            /\ events[i].name \notin {"file:started", "file:success", "file:error"}
            /\ events[i].name = "file:skipped" => events[i].info = UP_TO_DATE

\* the files an entry with these dependencies reaches through one or more
\* dependencies edges of the Source DB of the package
RECURSIVE ReachableDeps(_, _, _)
ReachableDeps(bundle, frontier, seen) ==
    IF frontier = {} THEN seen
    ELSE LET next == UNION { LET r == SourceDatabase_query(bundle.database, bundle.sourcePath, f)
                             IN  IF r = Undefined THEN {}
                                 ELSE { r.dependencies[i] : i \in 1..Len(r.dependencies) }
                             : f \in frontier }
         IN  ReachableDeps(bundle, next \ seen, seen \cup next)

Reachable(bundle, entry) ==
    LET direct == { entry.dependencies[i] : i \in 1..Len(entry.dependencies) }
    IN  ReachableDeps(bundle, direct, direct)

\* the file differs from what the Source DB records: no entry, no stat, or
\* another modification time or size
FileChanged(bundle, path) ==
    LET r == SourceDatabase_query(bundle.database, bundle.sourcePath, path)
    IN  \/ r = Undefined
        \/ statSync(path) = Undefined
        \/ statSync(path).mtime # r.writeTime
        \/ statSync(path).size # r.fileSize

\* C2: for every Source DB entry, if a file reachable from it through
\* dependencies edges has changed, requiresRebuild returns true.
C2_DependencyTriggers ==
    \A k \in DOMAIN packages : \A t \in DOMAIN packages[k].targets :
        \A i \in 1..Len(packages[k].database.entries) :
            LET e == packages[k].database.entries[i]
            IN  (\E f \in Reachable(packages[k], e) : FileChanged(packages[k], f))
                => requiresRebuild(packages[k], packages[k].targets[t],
                                   targetPathFor(packages[k].targets[t].targetPath,
                                                 e.resourceName), e)

\* C2 witness: an entry whose own file is unchanged reaches a changed file
C2_Witness ==
    \E k \in DOMAIN packages :
        /\ DOMAIN packages[k].targets # {}
        /\ \E i \in 1..Len(packages[k].database.entries) :
            LET e == packages[k].database.entries[i]
                p == Path_resolve(packages[k].sourcePath, e.relativePath)
            IN  /\ ~FileChanged(packages[k], p)
                /\ \E f \in Reachable(packages[k], e) : FileChanged(packages[k], f)

\* C3: when a run ends, every source file whose last successful build for
\* the platform of the run had left an output that was missing when the
\* run started has been submitted again (file:started).
C3_MissingOutputRebuilds ==
    phase = "done" =>
        \A f \in ghost.missing :
            \E i \in 1..Len(events) :
                events[i].name = "file:started" /\ events[i].sourcePath = f

\* C4: package:complete of a package comes after every file event of the
\* package.
C4_PackageCompleteLast ==
    \A i \in 1..Len(events) :
        events[i].name = "package:complete" =>
            \A j \in 1..Len(events) :
                (events[j].name \in FileEvents
                    /\ events[j].packageName = events[i].packageName) => j < i

\* C4 witness: two packages, the worker of the second answers first, so its
\* package:complete precedes the file:success of the first
C4_Witness ==
    /\ phase = "done"
    /\ \E i, j, k \in 1..Len(events) :
        /\ i < j /\ j < k
        /\ events[i].name = "package:complete"
        /\ events[j].name = "file:success"
        /\ events[j].packageName # events[i].packageName
        /\ events[k].name = "package:complete"
        /\ events[k].packageName = events[j].packageName

\* C5: project:complete comes after package:complete of every package of
\* the project, with pendingPackages at zero.
C5_ProjectCompleteLast ==
    \A i \in 1..Len(events) :
        events[i].name = "project:complete" =>
            /\ builder.pendingPackages = 0
            /\ \A k \in DOMAIN packages :
                \E j \in 1..(i - 1) :
                    events[j].name = "package:complete" /\ events[j].packageName = k

\* C5 witness: a finished run of a project with two packages
C5_Witness ==
    /\ Len(events) > 0
    /\ events[Len(events)].name = "project:complete"
    /\ Cardinality(DOMAIN packages) = 2
    /\ HasEvent(events, "file:success")

ProjectCompleteCount ==
    Cardinality({ i \in 1..Len(events) : events[i].name = "project:complete" })

\* C6: every run that has started eventually emits project:complete, and no
\* run emits it twice.
C6_BuildCompletes ==
    /\ [](ProjectCompleteCount <= 1)
    /\ [](phase \in {"spawning", "building"}
            => <>(phase = "done" /\ ProjectCompleteCount = 1))

\* C6 witness: a run over two packages with a built file has completed
C6_Witness ==
    /\ phase = "done"
    /\ ProjectCompleteCount = 1
    /\ Len(layout.keys) = 2
    /\ \E i \in 1..Len(events) : events[i].name \in {"file:success", "file:error"}

\* every build() call that reached a worker has its file:success or file:error
CallsAnswered ==
    \A c \in 1..Len(compilers.calls) :
        compilers.calls[c].resourceType \in DOMAIN Pipeline =>
            \E i \in 1..Len(events) :
                /\ events[i].name \in {"file:success", "file:error"}
                /\ events[i].sourcePath = compilers.calls[c].sourcePath

CallsFor(path) ==
    { c \in 1..Len(compilers.calls) : compilers.calls[c].sourcePath = path }

\* C8: at the end of a run for platform P, every walked file whose derived
\* platform is not P has a file:skipped event with the platform-mismatch
\* reason and was not submitted.
C8_MismatchSkipped ==
    phase = "done" =>
        \A k \in DOMAIN packages :
            \A n \in 1..Len(walkTree(readdirSync(k))) :
                LET f == Path_join(SourceDir(k), walkTree(readdirSync(k))[n])
                IN  determinePlatform(builder.platforms, parseResourcePath(f).properties)
                        # PlatformKey(builder.platform)
                    => SkippedFor(f, PLATFORM_MISMATCH) /\ CallsFor(f) = {}

\* the file name carries the property
HasProperty(path, property) ==
    \E j \in 1..Len(parseResourcePath(path).properties) :
        parseResourcePath(path).properties[j] = property

\* C9: in a run for a non-generic platform P no file with P among its
\* filename properties is skipped for platform mismatch, and every Source DB
\* entry without a platform tag is derived as generic.
C9_PlatformTags ==
    /\ builder.platform # <<>> =>
        \A i \in 1..Len(events) :
            (events[i].name = "file:skipped" /\ events[i].info = PLATFORM_MISMATCH)
                => ~HasProperty(events[i].sourcePath, builder.platform)
    /\ \A k \in DOMAIN packages :
        \A i \in 1..Len(packages[k].database.entries) :
            ~(\E p \in TargetPlatforms \ {<<>>} :
                 \E j \in 1..Len(packages[k].database.entries[i].properties) :
                     packages[k].database.entries[i].properties[j] = p)
            => packages[k].database.entries[i].platform = GENERIC_PLATFORM

\* the file:skipped events of a package for want of a compiler
NoCompilerSkips(packageName) ==
    { i \in 1..Len(events) : /\ events[i].name = "file:skipped"
                             /\ events[i].packageName = packageName
                             /\ events[i].info = NO_COMPILER }

\* pendingFiles is the number of build() calls of the package less the
\* number of results and no-compiler skips it has received
PendingAccounted(k) ==
    packages[k].pendingFiles =
        Cardinality({ c \in 1..Len(compilers.calls) : compilers.calls[c].bundle = k })
        - Cardinality(EventsAt("file:success", k, Len(events)))
        - Cardinality(EventsAt("file:error", k, Len(events)))
        - Cardinality(NoCompilerSkips(k))

\* C10: a file without a worker is skipped, counted out of pendingFiles
\* exactly once and not counted as an error; package:complete does not come
\* before the skip, and the package does reach package:complete.
C10_NoCompilerNotFatal ==
    /\ [](\A k \in DOMAIN packages :
            /\ PendingAccounted(k)
            /\ ~PackageCompleted(k) =>
                 packages[k].errorCount
                     = Cardinality(EventsAt("file:error", k, Len(events)))
            /\ \A i \in NoCompilerSkips(k) :
                 EventsAt("package:complete", k, i) = {})
    /\ \A k \in PackageNames :
          (NoCompilerSkips(k) # {}) ~> PackageCompleted(k)

\* C10 witness: the skip came during the walk, a later file of the package
\* went to its worker, and the package completed without an error
C10_Witness ==
    \E k \in DOMAIN packages :
        \E i \in NoCompilerSkips(k) :
            \E j, c \in 1..Len(events) :
                /\ i < j /\ j < c
                /\ events[j].name = "file:started"
                /\ events[j].packageName = k
                /\ events[c].name = "package:complete"
                /\ events[c].packageName = k
                /\ events[c].info = 0

\* the paths under which entries holds an element
EntryPaths(db) == { db.entries[i].relativePath : i \in 1..Len(db.entries) }

\* C11: in a database driven by load, create and remove, entryTable maps the
\* relativePath of every element of entries to the index of that element.
C11_IndexConsistent ==
    api.kind # "none" =>
        \A i \in 1..Len(api.db.entries) :
            /\ api.db.entries[i].relativePath \in DOMAIN api.db.entryTable
            /\ api.db.entryTable[api.db.entries[i].relativePath] = i - 1

\* C12: in a database that started empty and is driven by create and remove,
\* no two elements of entries have the same relativePath.
C12_KeysUnique ==
    api.kind # "none" =>
        \A i, j \in 1..Len(api.db.entries) :
            api.db.entries[i].relativePath = api.db.entries[j].relativePath => i = j

\* C13: after remove on a path that had an entry, entries holds no element
\* with that relativePath, query for the path returns nothing, dirty is true
\* and query returns every other entry as before; after remove on a path
\* without an entry the database is as it was.
C13_RemoveRemoves ==
    api.op.name = "remove" =>
        IF ApiQuery(api.kind, api.prev, api.op.path) # Undefined
        THEN /\ Path_relative(ApiRoot(api.kind), api.op.path) \notin EntryPaths(api.db)
             /\ ApiQuery(api.kind, api.db, api.op.path) = Undefined
             /\ api.db.dirty
             /\ \A other \in ApiKeys(api.kind) \ {api.op.path} :
                    ApiQuery(api.kind, api.db, other) = ApiQuery(api.kind, api.prev, other)
        ELSE api.db = api.prev

\* the content of a database in memory is not what the file at path holds
\* (a file that does not exist holds nothing)
NotPersisted(path, content) ==
    path \notin DOMAIN dbFiles \/ dbFiles[path] # content

PackageFiles(k) == { SourceDbPath(k), TargetDbPath(k, PlatformKey(builder.platform)) }

\* the files written in this run
Written == { writes[j].path : j \in 1..Len(writes) }

\* C15: every save of a run is the save of a dirty database of a package,
\* made with package:complete of that package as the next event; once
\* package:complete of a package is emitted, its source database and the
\* database of the built target are clean and their files hold their content.
C15_SavedAtPackageComplete ==
    /\ \A j \in 1..Len(writes) :
        /\ writes[j].dirty
        /\ writes[j].at < Len(events)
        /\ events[writes[j].at + 1].name = "package:complete"
        /\ writes[j].path \in PackageFiles(events[writes[j].at + 1].packageName)
    /\ \A k \in DOMAIN packages :
        PackageCompleted(k) =>
            /\ ~packages[k].database.dirty
            /\ ~packages[k].targets[PlatformKey(builder.platform)].database.dirty
            /\ ~NotPersisted(SourceDbPath(k), SourceDatabase_save(packages[k].database))
            /\ ~NotPersisted(TargetDbPath(k, PlatformKey(builder.platform)),
                             TargetDatabase_save(
                                 packages[k].targets[PlatformKey(builder.platform)].database))

\* C15 witness: a run ends in which one package was rebuilt and saved both
\* its databases, and another package, found clean, saved none
C15_Witness ==
    /\ phase = "done"
    /\ \E k1, k2 \in DOMAIN packages :
        /\ PackageFiles(k1) \subseteq Written
        /\ PackageFiles(k2) \cap Written = {}
        /\ PackageCompleted(k1) /\ PackageCompleted(k2)

\* C16: a database loaded from a path without a file has no entries, an
\* empty entryTable and dirty = true; loaded from a file it has dirty = false.
C16_AbsentFileLoads ==
    api.op.name = "load" =>
        IF api.op.path \notin DOMAIN api.files
        THEN /\ api.db.entries = <<>>
             /\ DOMAIN api.db.entryTable = {}
             /\ api.db.dirty
        ELSE ~api.db.dirty

\* C16 witness: a database with entries was saved to one file, and the load
\* is from the other path, where no file is
C16_Witness ==
    /\ api.op.name = "load"
    /\ api.op.path \notin DOMAIN api.files
    /\ DOMAIN api.files # {}
    /\ Len(api.prev.entries) > 0

\* the file is one of a source database (of a target database otherwise)
IsSourceDbPath(path) == Len(path) = 2

\* the file that save writes for the database that load makes of a file
SavedAgain(path) ==
    IF IsSourceDbPath(path)
    THEN SourceDatabase_save(SourceDatabase_load(dbFiles[path]))
    ELSE TargetDatabase_save(TargetDatabase_load(dbFiles[path]))

\* C17: for every database file that save has written, load followed by
\* save writes the same content: bundleName, platform, and the entries in
\* order with all their fields, writeTime included.
C17_RoundTrip ==
    \A path \in DOMAIN dbFiles : SavedAgain(path) = dbFiles[path]

\* C17 witness: a source database file with an entry that was written after
\* a change of its file and an entry with a dependency, and a target
\* database file with an entry
C17_Witness ==
    /\ \E path \in DOMAIN dbFiles :
        /\ IsSourceDbPath(path)
        /\ \E i, j \in 1..Len(dbFiles[path].entries) :
            /\ dbFiles[path].entries[i].writeTime = DateToJSON(2)
            /\ dbFiles[path].entries[j].dependencies # <<>>
    /\ \E path \in DOMAIN dbFiles :
        /\ ~IsSourceDbPath(path)
        /\ Len(dbFiles[path].entries) > 0

\* one step of the reference hash on the unsigned 32-bit value u of h:
\* (h << 7) + (h >>> 25) + ch, wrapped to 32 bits
RefStep(u, ch) ==
    LET lo7 == u.lo * 128
        shl == Num((u.hi * 128 + (lo7 \div 65536)) % 65536, lo7 % 65536)
        sum == NumAdd(shl, Num(0, (u.hi \div 512) + ch))
    IN  Num(sum.hi % 65536, sum.lo)

\* the reference hash of the code units i .. n of a name, from the value u
RECURSIVE RefHashFrom(_, _, _)
RefHashFrom(name, i, u) ==
    IF i > Len(name) THEN u
    ELSE RefHashFrom(name, i + 1, RefStep(u, charCodeAt(name[i])))

RefHash(name) == RefHashFrom(name, 1, Num(0, 0))

\* the hexadecimal forms of the reference hash: of its signed 32-bit value
\* (a minus sign and the magnitude) and of its unsigned 32-bit value
RefHex(name) ==
    { toString16(ToInt32(RefHash(name))), toString16(RefHash(name)) }

\* C18: targetPathFor returns targetPath joined with the hexadecimal form of
\* the reference hash h, h = (h << 7) + (h >>> 25) + ch on 32-bit integers
\* with wraparound, for names of every length.
C18_HashAgrees ==
    fn.called = "targetPathFor" =>
        /\ fn.result.dir = TargetDir("p", GENERIC_PLATFORM)
        /\ fn.result.name \in RefHex(fn.input)

\* the same for the names whose accumulator never has its top bit set
\* before the last code unit
C18_ShortNamesAgree ==
    (fn.called = "targetPathFor" /\ Len(fn.input) <= 5) =>
        /\ fn.result.dir = TargetDir("p", GENERIC_PLATFORM)
        /\ fn.result.name \in RefHex(fn.input)

\* the positions of the dots of a name, and the n-th of them
Dots(name) == { i \in 1..Len(name) : name[i] = "." }

DotAt(name, n) ==
    CHOOSE i \in Dots(name) : Cardinality({ j \in Dots(name) : j <= i }) = n

\* the segments between the first and the last dot of a name, in order
SegmentsBetweenDots(name) ==
    [ n \in 1..(Cardinality(Dots(name)) - 1) |->
        SubSeq(name, DotAt(name, n) + 1, DotAt(name, n + 1) - 1) ]

\* C19: on a basename with at least one dot parseResourcePath returns
\* resourceName = the text before the first dot, resourceType = the text
\* after the last dot and properties = the segments between the first and
\* the last dot, in order; with exactly one dot properties is [""].
C19_ParseDotted ==
    (fn.called = "parseResourcePath" /\ Dots(fn.input) # {}) =>
        LET dots == Cardinality(Dots(fn.input))
        IN  /\ fn.result.resourceName = SubSeq(fn.input, 1, DotAt(fn.input, 1) - 1)
            /\ fn.result.resourceType =
                   SubSeq(fn.input, DotAt(fn.input, dots) + 1, Len(fn.input))
            /\ fn.result.properties =
                   IF dots = 1 THEN << <<>> >> ELSE SegmentsBetweenDots(fn.input)

\* C19 witness: a basename with three dots was parsed into a name, two
\* properties of which the first is not empty, and a type
C19_Witness ==
    /\ fn.called = "parseResourcePath"
    /\ Cardinality(Dots(fn.input)) = 3
    /\ fn.result.resourceName # <<>>
    /\ fn.result.resourceType # <<>>
    /\ Len(fn.result.properties) = 2
    /\ fn.result.properties[1] # <<>>

\* C20: on a basename without dot parseResourcePath returns resourceName =
\* the whole basename and resourceType = the empty string.
C20_ParseNoDot ==
    (fn.called = "parseResourcePath" /\ Dots(fn.input) = {}) =>
        /\ fn.result.resourceName = fn.input
        /\ fn.result.resourceType = <<>>

\* what the code returns on a basename without dot: the empty resourceName
\* and the whole basename as resourceType
C20_NoDotIsAllType ==
    (fn.called = "parseResourcePath" /\ Dots(fn.input) = {}) =>
        /\ fn.result.resourceName = <<>>
        /\ fn.result.resourceType = fn.input
        /\ fn.result.properties = << <<>> >>

\* the elements of a JavaScript array
Elements(arr) == { arr[i] : i \in 1..Len(arr) }

\* C21: in every Source DB, for every entry s and every r in the
\* dependencies of s, the database has an entry for r and s is in the
\* references of the entry of r.
C21_BackReferences ==
    \A k \in DOMAIN packages :
        \A i \in 1..Len(packages[k].database.entries) :
            LET s == packages[k].database.entries[i]
            IN  \A r \in Elements(s.dependencies) :
                    LET re == SourceDatabase_query(packages[k].database,
                                                   packages[k].sourcePath, r)
                    IN  /\ re # Undefined
                        /\ Path_resolve(packages[k].sourcePath, s.relativePath)
                               \in Elements(re.references)

\* the part of it that the code keeps: every dependency has an entry, and an
\* entry's references are sources that depend on it
C21_DependenciesHaveEntries ==
    \A k \in DOMAIN packages :
        \A i \in 1..Len(packages[k].database.entries) :
            LET s == packages[k].database.entries[i]
            IN  \A r \in Elements(s.dependencies) :
                    SourceDatabase_query(packages[k].database,
                                         packages[k].sourcePath, r) # Undefined

\* C22: before the compiler cache has emitted ready the Builder has called
\* build for no file and no worker has a request queued or in flight
\* (no file:started either); a worker that is sent a BUILD_REQUEST has
\* answered VERSION_QUERY, and ready means that every worker has.
C22_HandshakeFirst ==
    /\ ~compilers.ready =>
          /\ compilers.calls = <<>>
          /\ \A t \in DOMAIN compilers.workers :
                /\ compilers.workers[t].queue = <<>>
                /\ compilers.workers[t].state # "Busy"
          /\ ~HasEvent(events, "file:started")
    /\ \A t \in DOMAIN compilers.workers :
          compilers.workers[t].state = "Busy" => compilers.workers[t].version = 1
    /\ compilers.ready =>
          \A t \in DOMAIN compilers.workers : compilers.workers[t].version = 1

\* C22 witness: after the handshake a worker has a BUILD_REQUEST in flight
\* and the other worker, idle, has none
C22_Witness ==
    /\ compilers.ready
    /\ compilers.calls # <<>>
    /\ \E t, u \in DOMAIN compilers.workers :
          /\ compilers.workers[t].state = "Busy"
          /\ compilers.workers[u].state = "Idle"
          /\ compilers.workers[u].queue = <<>>

\* the positions, in order, of the events with one of these names for a
\* source file of the resource type
PositionsOf(names, type) ==
    SelectSeq([i \in 1..Len(events) |-> i],
              LAMBDA i : /\ events[i].name \in names
                         /\ parseResourcePath(events[i].sourcePath).resourceType = type)

StartedAt(type) == PositionsOf({"file:started"}, type)

CompletedAt(type) == PositionsOf({"file:success", "file:error"}, type)

\* the build calls of the run for the resource type, in order
SubmittedOf(type) == SelectSeq(compilers.calls, LAMBDA input : input.resourceType = type)

\* C23: for every worker, the N-th completion follows the N-th started
\* event and is for the same source file, the next started event follows
\* that completion (at most one request is outstanding, and one is exactly
\* while the worker is busy), and the started events are for the build
\* calls of the worker's resource type in the order of the calls.
C23_PerWorkerOrder ==
    \A t \in DOMAIN compilers.workers :
        LET st == StartedAt(t)
            co == CompletedAt(t)
            su == SubmittedOf(t)
        IN  /\ Len(co) <= Len(st)
            /\ Len(st) <= Len(co) + 1
            /\ (Len(st) = Len(co) + 1) <=> (compilers.workers[t].state = "Busy")
            /\ \A n \in 1..Len(co) :
                  /\ st[n] < co[n]
                  /\ events[co[n]].sourcePath = events[st[n]].sourcePath
                  /\ n < Len(st) => co[n] < st[n + 1]
            /\ Len(st) <= Len(su)
            /\ \A n \in 1..Len(st) : events[st[n]].sourcePath = su[n].sourcePath

\* C23 witness: a worker was handed two requests while it had none, has
\* completed the first, with an error, and has the second in flight
C23_Witness ==
    \E t \in DOMAIN compilers.workers :
        /\ Len(SubmittedOf(t)) = 2
        /\ Len(StartedAt(t)) = 2
        /\ Len(CompletedAt(t)) = 1
        /\ events[CompletedAt(t)[1]].name = "file:error"

\* the names targetPlatform and contentPackage are called with
PlatformNames == { <<>>, GENERIC_PLATFORM, IOS, CONSTRUCTOR }

ContentPackageNames == PackageNames \cup { "constructor" }

\* the two worlds differ in the packages at most
SameButPackages(w1, w2) ==
    [w1 EXCEPT !.packages = EmptyMap, !.targetDirs = {}]
        = [w2 EXCEPT !.packages = EmptyMap, !.targetDirs = {}]

\* contentPackage(k) on the project of the state: the stored Package is
\* kept, a missing one is stored and nothing else changes, and a second
\* call changes nothing
ContentPackageGetOrInsert(k) ==
    LET w1 == Project_contentPackage(World, k)
    IN  /\ k \in DOMAIN packages => w1 = World
        /\ k \notin DOMAIN packages =>
              /\ DOMAIN w1.packages = DOMAIN packages \cup {k}
              /\ \A j \in DOMAIN packages : w1.packages[j] = packages[j]
              /\ w1.packages[k].packageName = k
              /\ SameButPackages(w1, World)
        /\ Project_contentPackage(w1, k) = w1

\* the same for targetPlatform(n) on the Package k, stored under key
TargetPlatformGetOrInsert(k, n, key) ==
    LET w1 == Package_targetPlatform(World, k, n)
    IN  /\ key \in DOMAIN packages[k].targets => w1 = World
        /\ key \notin DOMAIN packages[k].targets =>
              /\ DOMAIN w1.packages[k].targets = DOMAIN packages[k].targets \cup {key}
              /\ \A j \in DOMAIN packages[k].targets :
                    w1.packages[k].targets[j] = packages[k].targets[j]
              /\ w1.packages[k].targets[key].platformName = key
              /\ [w1.packages[k] EXCEPT !.targets = EmptyMap]
                     = [packages[k] EXCEPT !.targets = EmptyMap]
              /\ \A j \in DOMAIN packages \ {k} : w1.packages[j] = packages[j]
              /\ SameButPackages(w1, World)
        /\ Package_targetPlatform(w1, k, n) = w1

\* C24: contentPackage and targetPlatform are get-or-insert for every
\* name, and targetPlatform("") and targetPlatform("generic") give the
\* same Target.
C24_GetOrInsert ==
    /\ \A k \in ContentPackageNames : ContentPackageGetOrInsert(k)
    /\ \A k \in DOMAIN packages :
          /\ \A n \in PlatformNames :
                TargetPlatformGetOrInsert(k, n, IF n = <<>> THEN GENERIC_PLATFORM ELSE n)
          /\ Package_targetPlatform(World, k, <<>>)
                 = Package_targetPlatform(World, k, GENERIC_PLATFORM)

\* the same for the names that Object.prototype does not define
C24_OwnNamesGetOrInsert ==
    /\ \A k \in ContentPackageNames \ InheritedPackageNames : ContentPackageGetOrInsert(k)
    /\ \A k \in DOMAIN packages :
          /\ \A n \in PlatformNames \ InheritedPlatformNames :
                TargetPlatformGetOrInsert(k, n, IF n = <<>> THEN GENERIC_PLATFORM ELSE n)
          /\ Package_targetPlatform(World, k, <<>>)
                 = Package_targetPlatform(World, k, GENERIC_PLATFORM)

\* the difference list of a diff that found nothing
NoDifferences(diffs) ==
    /\ diffs.count = 0
    /\ diffs.additions = <<>>
    /\ diffs.deletions = <<>>
    /\ diffs.changes = <<>>

\* C25: for the tree t scanned from the directory tree of any state,
\* diffTree(root, treeFromJSON(treeToJSON(t)), t) reports no difference;
\* and fsdiff run on a tree that has not changed since fsdump reports none.
C25_DumpRoundTrip ==
    /\ fs.disk # EmptyMap =>
          LET t == scanTree(fs.disk, fs.options)
          IN  NoDifferences(diffTree(t.root, treeFromJSON(treeToJSON(t)), t, TRUE))
    /\ (fs.op = "diff" /\ fs.fresh) => NoDifferences(fs.diffs)

\* C25 witness: fsdiff has run on an unchanged tree that was scanned
\* recursively and holds files at three depths
C25_Witness ==
    /\ fs.op = "diff"
    /\ fs.fresh
    /\ fs.options.recursive
    /\ FsUniverse \subseteq DOMAIN fs.disk
    /\ NoDifferences(fs.diffs)

\* fsdiff does report what has changed since fsdump
C25_ChangesReported ==
    (fs.op = "diff" /\ ~fs.fresh /\ fs.options.recursive /\ ~fs.options.ignoreHidden)
        => fs.diffs.count > 0

\* the files and directories below the root, at any depth, with no hidden
\* name on their path
NonHiddenBelowRoot ==
    { p \in DOMAIN fs.disk \ {FsRoot} :
        \A i \in (Len(FsRoot) + 1)..Len(p) : p[i][1] # "." }

\* the callback was invoked exactly once for each of the paths, and for
\* nothing else
VisitedOnce(paths) ==
    /\ \A p \in paths :
          Cardinality({ i \in 1..Len(fs.visits) : fs.visits[i].absolutePath = p }) = 1
    /\ \A i \in 1..Len(fs.visits) : fs.visits[i].absolutePath \in paths

\* C26: walkTree with recursive = true invokes the callback exactly once
\* for every non-hidden file and directory below the root, at every depth.
C26_RecursiveWalk ==
    (fs.op = "walk" /\ fs.recursive) => VisitedOnce(NonHiddenBelowRoot)

\* what the walk does visit, whatever the value of recursive: the
\* non-hidden entries of the root directory itself
C26_WalkVisitsChildren ==
    fs.op = "walk" =>
        VisitedOnce({ p \in NonHiddenBelowRoot : Len(p) = Len(FsRoot) + 1 })

\* the file of the entry has the recorded modification time and size, and
\* so has every file the entry reaches through dependencies, each with a
\* Source DB entry
NothingModified(bundle, e) ==
    LET p == Path_resolve(bundle.sourcePath, e.relativePath)
    IN  /\ statSync(p) # Undefined
        /\ statSync(p).mtime = e.writeTime
        /\ statSync(p).size = e.fileSize
        /\ \A f \in Reachable(bundle, e) : ~FileChanged(bundle, f)

\* C27: dependenciesModified returns false for every Source DB entry whose
\* file and whose transitively reachable dependencies are all unmodified,
\* for entries with dependencies as for entries with none.
C27_UnmodifiedIsFalse ==
    \A k \in DOMAIN packages :
        \A i \in 1..Len(packages[k].database.entries) :
            LET e == packages[k].database.entries[i]
            IN  NothingModified(packages[k], e) => ~dependenciesModified(packages[k], e)

\* the same for the entries without dependencies
C27_NoDependenciesIsFalse ==
    \A k \in DOMAIN packages :
        \A i \in 1..Len(packages[k].database.entries) :
            LET e == packages[k].database.entries[i]
            IN  (NothingModified(packages[k], e) /\ e.dependencies = <<>>)
                    => ~dependenciesModified(packages[k], e)

\* the source file has a file:started event in this run
Started(path) ==
    \E i \in 1..Len(events) :
        events[i].name = "file:started" /\ events[i].sourcePath = path

\* C28: when a run ends, every source file whose last build for the target
\* of the run had ended with file:error has been submitted again
\* (file:started).
C28_FailedIsRetried ==
    phase = "done" => \A f \in ghost.retry : Started(f)

\* C29: when a run for platform P ends, every source file that was
\* modified after its last successful build for P, with no build for P
\* since, has been submitted (file:started), whatever builds for other
\* platforms were run in between.
C29_NoLostModification ==
    phase = "done" => \A f \in ghost.modified : Started(f)

\* the Target DB entries of the target of this run of package k whose
\* sourcePath identifies the source file
TargetEntriesFor(k, source) ==
    LET target == packages[k].targets[ghost.prevPlatform]
    IN  { i \in 1..Len(target.database.entries) :
            target.database.entries[i].sourcePath
                = Path_relative(target.targetPath, source) }

\* the file:success event at index i has its Target DB entry, with the
\* outputs the event reports
HasTargetEntry(i) ==
    \E j \in TargetEntriesFor(events[i].packageName, events[i].sourcePath) :
        packages[events[i].packageName].targets[ghost.prevPlatform]
            .database.entries[j].outputs = events[i].info

\* C30: when a run ends in which no submitted file failed, the Target DB of
\* the run's target holds, for every source file built in the run, an entry
\* whose sourcePath identifies that file and whose outputs are the outputs
\* reported for it; no entry stands for two source files.
C30_OneEntryPerSource ==
    (phase = "done" /\ ~HasEvent(events, "file:error")) =>
        \A i \in 1..Len(events) :
            events[i].name = "file:success" => HasTargetEntry(i)

\* what does hold: the entry exists for every built source file whose
\* resource name no other built source file of the run shares
C30_DistinctNamesHaveEntries ==
    (phase = "done" /\ ~HasEvent(events, "file:error")) =>
        \A i \in 1..Len(events) :
            (/\ events[i].name = "file:success"
             /\ \A j \in 1..Len(events) :
                    (/\ events[j].name = "file:success"
                     /\ events[j].packageName = events[i].packageName
                     /\ events[j].sourcePath # events[i].sourcePath)
                    => parseResourcePath(events[j].sourcePath).resourceName
                           # parseResourcePath(events[i].sourcePath).resourceName)
            => HasTargetEntry(i)

\* the build() calls for package k that no file:skipped, file:success or
\* file:error event has answered yet
Unanswered(k) ==
    { c \in 1..Len(compilers.calls) :
        /\ compilers.calls[c].bundle = k
        /\ ~\E i \in 1..Len(events) :
               /\ events[i].name \in {"file:skipped", "file:success", "file:error"}
               /\ events[i].sourcePath = compilers.calls[c].sourcePath }

\* C31: in every state pendingFiles of every package is not negative and is
\* the number of build requests submitted for the package that have not been
\* answered by a skipped or complete event.
C31_PendingCounter ==
    \A k \in DOMAIN packages :
        /\ packages[k].pendingFiles >= 0
        /\ packages[k].pendingFiles = Cardinality(Unanswered(k))

\* C31 witness: two packages each with a request outstanding, after a third
\* request has been answered by a skipped event
C31_Witness ==
    /\ \E k1, k2 \in DOMAIN packages :
        /\ k1 # k2
        /\ packages[k1].pendingFiles >= 1
        /\ packages[k2].pendingFiles >= 1
    /\ \E k \in DOMAIN packages : NoCompilerSkips(k) # {}
    /\ Len(compilers.calls) = 3

\* C32: shutdown() is called at most once in a run and exactly once in a
\* finished run; when it has been called every package has its
\* package:complete and no build request is unanswered; project:complete is
\* emitted only after the call.
C32_ShutdownSafety ==
    /\ compilers.shutdownCalls <= 1
    /\ phase = "done" => compilers.shutdownCalls = 1
    /\ compilers.shutdownCalls = 1 =>
        \A k \in DOMAIN packages : PackageCompleted(k) /\ Unanswered(k) = {}
    /\ \A i \in 1..Len(events) :
        events[i].name = "project:complete" =>
            compilers.shutdownCalls = 1 /\ compilers.shutdownAt < i

\* C32 witness: a finished run over two packages in which a worker built a
\* file, with the one shutdown() call made
C32_Witness ==
    /\ phase = "done"
    /\ compilers.shutdownCalls = 1
    /\ Cardinality(DOMAIN packages) = 2
    /\ HasEvent(events, "file:success")
    /\ HasEvent(events, "project:complete")

\* the number of events of a name for a package in this run
EventCount(name, k) == Cardinality(EventsAt(name, k, Len(events)))

\* C33: in a run every package gets package:started once, as soon as the
\* packages are submitted, and package:complete at most once and exactly
\* once when the run is done; package:started of a package precedes every
\* file event of the package, and the file:success or file:error of a file
\* is preceded by the file:started of that file.
C33_EventFraming ==
    /\ \A k \in DOMAIN packages :
        /\ EventCount("package:started", k) <= 1
        /\ EventCount("package:complete", k) <= 1
        /\ phase \in {"building", "done"} => EventCount("package:started", k) = 1
        /\ phase = "done" => EventCount("package:complete", k) = 1
    /\ \A j \in 1..Len(events) :
        /\ events[j].name \in FileEvents =>
              EventsAt("package:started", events[j].packageName, j - 1) # {}
        /\ events[j].name \in {"file:success", "file:error"} =>
              \E i \in 1..(j - 1) :
                  /\ events[i].name = "file:started"
                  /\ events[i].sourcePath = events[j].sourcePath

\* C33 witness: a finished run over two packages, one file built and one
\* failed
C33_Witness ==
    /\ phase = "done"
    /\ Cardinality(DOMAIN packages) = 2
    /\ HasEvent(events, "file:success")
    /\ HasEvent(events, "file:error")

\* an entry of the package reaches itself through dependencies edges
OnCycle(bundle, e) ==
    Path_resolve(bundle.sourcePath, e.relativePath) \in Reachable(bundle, e)

\* C34: for every entry of every Source DB, dependenciesModified returns
\* true or false without nesting its calls deeper than the database has
\* entries, whether the dependencies edges form a cycle or not.
C34_Terminates ==
    \A k \in DOMAIN packages :
        \A i \in 1..Len(packages[k].database.entries) :
            LET e == packages[k].database.entries[i]
                r == DependenciesModifiedWithin(packages[k], e,
                                                Len(packages[k].database.entries) + 1)
            IN  /\ r \in {"true", "false"}
                /\ (r = "true") = dependenciesModified(packages[k], e)

\* C34 witness: a Source DB with an entry that depends on itself and whose
\* file is unmodified, or with two entries that depend on each other and
\* whose files are unmodified
C34_Witness ==
    \E k \in DOMAIN packages :
        \E i, j \in 1..Len(packages[k].database.entries) :
            LET e == packages[k].database.entries[i]
                f == packages[k].database.entries[j]
                p == Path_resolve(packages[k].sourcePath, e.relativePath)
                q == Path_resolve(packages[k].sourcePath, f.relativePath)
            IN  /\ ~FileChanged(packages[k], p)
                /\ ~FileChanged(packages[k], q)
                /\ \/ (i = j /\ p \in Elements(e.dependencies))
                   \/ (i # j /\ q \in Elements(e.dependencies)
                             /\ p \in Elements(f.dependencies))

\* the last call loaded a file that holds what save writes for the database
\* the call replaced
LoadedWhatWasSaved ==
    /\ api.op.name = "load"
    /\ api.op.path \in DOMAIN api.files
    /\ api.files[api.op.path] = ApiSaved(api.kind, api.prev)

\* C35: a database loaded from the file that save wrote for a database
\* answers every query as that database did; in particular a path that was
\* removed before the save has no entry after the load.
C35_PersistenceKeepsAnswers ==
    LoadedWhatWasSaved =>
        \A path \in ApiKeys(api.kind) :
            ApiQuery(api.kind, api.db, path) = ApiQuery(api.kind, api.prev, path)

\* what does hold: the answers are kept when every element of entries is
\* indexed, that is when no entry had been removed
C35_IndexedKeepsAnswers ==
    (LoadedWhatWasSaved /\ EntryPaths(api.prev) = DOMAIN api.prev.entryTable) =>
        \A path \in ApiKeys(api.kind) :
            ApiQuery(api.kind, api.db, path) = ApiQuery(api.kind, api.prev, path)

\* the files and directories a tree holds below its root, at every depth
RECURSIVE TreeEntries(_)
TreeEntries(t) ==
    { [ path |-> t.files[i].path, file |-> TRUE, size |-> t.files[i].stat.size,
        mtime |-> t.files[i].stat.mtime ] : i \in 1..Len(t.files) }
    \cup { [ path |-> t.dirs[i].path, file |-> FALSE, size |-> 0, mtime |-> 0 ] :
             i \in 1..Len(t.dirs) }
    \cup UNION { TreeEntries(t.dirs[i]) : i \in 1..Len(t.dirs) }

\* the entry is named in the tree: the same path, a file or a directory alike
Named(t, e) == \E x \in TreeEntries(t) : x.path = e.path /\ x.file = e.file

\* the entry lies in a directory that both trees hold
InCommonDirectory(a, b, e) ==
    \/ FsParent(e.path) = FsRoot
    \/ \E x \in TreeEntries(a) : \E y \in TreeEntries(b) :
          /\ x.path = FsParent(e.path) /\ ~x.file
          /\ y.path = FsParent(e.path) /\ ~y.file

\* the paths of a list of entries, and that each is listed once
PathsOf(entries) == { entries[i].path : i \in 1..Len(entries) }
ListedOnce(entries) == Cardinality(PathsOf(entries)) = Len(entries)

\* the difference list is the one the trees call for: the entries named in
\* a only, those named in b only, the files named in both with another size
\* or modification time, each once, and their number
Classified(diffs, a, b) ==
    /\ ListedOnce(diffs.deletions) /\ ListedOnce(diffs.additions)
    /\ PathsOf(diffs.deletions) =
          { e.path : e \in { x \in TreeEntries(a) :
                               ~Named(b, x) /\ InCommonDirectory(a, b, x) } }
    /\ PathsOf(diffs.additions) =
          { e.path : e \in { x \in TreeEntries(b) :
                               ~Named(a, x) /\ InCommonDirectory(a, b, x) } }
    /\ { diffs.changes[i].curr.path : i \in 1..Len(diffs.changes) } =
          { e.path : e \in { x \in TreeEntries(a) :
                               /\ x.file
                               /\ \E y \in TreeEntries(b) :
                                     /\ y.path = x.path /\ y.file
                                     /\ (y.size # x.size \/ y.mtime # x.mtime) } }
    /\ Cardinality({ diffs.changes[i].curr.path : i \in 1..Len(diffs.changes) })
          = Len(diffs.changes)
    /\ diffs.count = Len(diffs.additions) + Len(diffs.deletions) + Len(diffs.changes)

\* C36: the list diffTree(root, a, b) returns names every entry that is in
\* a only as one deletion, every entry in b only as one addition, every
\* file in both with another size or modification time as one change and
\* nothing else, count is their number, and this is so whatever diffTree
\* calls were made on the same trees before.
C36_ClassifiesOnce ==
    fs.op = "difftree" =>
        Classified(fs.diffs, fs.kept[fs.pair[1]], fs.kept[fs.pair[2]])

\* what does hold: the first call on two trees classifies them so
C36_FirstCallClassifies ==
    (fs.op = "difftree" /\ fs.ops = 1) =>
        Classified(fs.diffs, fs.kept[fs.pair[1]], fs.kept[fs.pair[2]])

\* the paths of a tree on disk that the watcher looks at: below the root,
\* no hidden name on the way when hidden entries are ignored, and only the
\* entries of the root itself when the watcher is not recursive
Watched(disk) ==
    { p \in DOMAIN disk \ {FsRoot} :
        /\ fs.watch.ignoreHidden => \A i \in 2..Len(p) : p[i][1] # "."
        /\ ~fs.watch.recursive => Len(p) = Len(FsRoot) + 1 }

\* an entry whose directory the watcher looks at in both trees
WatchedInBoth(old, new, p) ==
    FsParent(p) = FsRoot \/ FsParent(p) \in Watched(old) \cap Watched(new)

WatchRemoved(old, new) ==
    { p \in Watched(old) \ Watched(new) : WatchedInBoth(old, new, p) }

WatchCreated(old, new) ==
    { p \in Watched(new) \ Watched(old) : WatchedInBoth(old, new, p) }

WatchChanged(old, new) ==
    { p \in Watched(old) \cap Watched(new) :
        FsModeOf(p) = "file" /\ old[p] # new[p] }

\* the events of one name, in the order they were emitted
EmittedAs(name) == SelectSeq(fs.watch.emitted, LAMBDA e : e.name = name)

\* C37: whatever start() and stop() calls were made, at most one interval
\* timer is active, and none after stop(); an update compares the tree of
\* the previous cycle with the tree on disk: it emits nothing when the two
\* do not differ, and otherwise data, then one remove for each deletion, one
\* create for each addition and one change for each modified file, in this
\* order, so a change of the tree is reported in the one cycle that follows it
C37_WatcherPolling ==
    /\ Cardinality(fs.watch.timers) <= 1
    /\ fs.watch.timers = IF fs.watch.timerId = -1 THEN {} ELSE {fs.watch.timerId}
    /\ fs.op = "stop" => fs.watch.timers = {}
    /\ fs.op = "update" =>
          LET removes == EmittedAs("remove")
              creates == EmittedAs("create")
              changes == EmittedAs("change")
              differs == WatchRemoved(fs.before, fs.sampled)
                           \cup WatchCreated(fs.before, fs.sampled)
                           \cup WatchChanged(fs.before, fs.sampled) # {}
          IN  /\ fs.watch.emitted =
                    (IF differs THEN << [name |-> "data", path |-> <<>>] >> ELSE <<>>)
                    \o removes \o creates \o changes
              /\ ListedOnce(removes) /\ ListedOnce(creates) /\ ListedOnce(changes)
              /\ PathsOf(removes) = WatchRemoved(fs.before, fs.sampled)
              /\ PathsOf(creates) = WatchCreated(fs.before, fs.sampled)
              /\ PathsOf(changes) = WatchChanged(fs.before, fs.sampled)

\* a watcher started twice has met a change of the tree and reported it in
\* the update that followed
C37_Witness ==
    /\ fs.op = "update"
    /\ fs.watch.next > 2
    /\ Len(fs.watch.emitted) >= 2
    /\ fs.watch.emitted[1].name = "data"

\* an update with nothing to report after an update that reported
C37_QuietWitness ==
    /\ fs.op = "update"
    /\ fs.ops = 4
    /\ fs.watch.emitted = <<>>
    /\ fs.before = fs.sampled
    /\ fs.watch.previousTree # fs.watch.currentTree

\* the file of the last call is there and does not parse
LastFileMalformed ==
    /\ api.cfg.op.path \in DOMAIN api.cfg.disk
    /\ api.cfg.disk[api.cfg.op.path].malformed

\* the last call was one that loads a file: Project.create, or a
\* get-or-insert that did not find the object
CfgLoaded ==
    /\ api.cfg.op.name \in {"Project.create", "contentPackage", "targetPlatform"}
    /\ ~api.cfg.found

\* contentPackage and targetPlatform: a load that failed is an exception,
\* nothing is inserted, and only an absent file gives the new, empty database
MalformedDatabaseIsAnError ==
    /\ (CfgLoaded /\ api.cfg.op.name # "Project.create" /\ LastFileMalformed) =>
          api.cfg.thrown
    /\ (api.cfg.op.name = "contentPackage" /\ api.cfg.thrown) =>
          "p" \notin DOMAIN api.cfg.project.packages
    /\ (api.cfg.op.name = "targetPlatform" /\ api.cfg.thrown) =>
          GENERIC_PLATFORM \notin DOMAIN api.cfg.project.packages["p"].targets
    /\ (CfgLoaded /\ api.cfg.op.name = "contentPackage" /\ ~api.cfg.thrown
          /\ api.cfg.project.packages["p"].database =
                [ NewSourceDatabase EXCEPT !.bundleName = "p", !.dirty = TRUE ]) =>
            api.cfg.op.path \notin DOMAIN api.cfg.disk
    /\ (CfgLoaded /\ api.cfg.op.name = "targetPlatform" /\ ~api.cfg.thrown
          /\ api.cfg.project.packages["p"].targets[GENERIC_PLATFORM].database =
                [ NewTargetDatabase EXCEPT !.bundleName = "p", !.dirty = TRUE,
                                           !.platform = GENERIC_PLATFORM ]) =>
            api.cfg.op.path \notin DOMAIN api.cfg.disk

\* C38: a pipeline definition or database file that exists but is malformed
\* makes Project.create, Package.create or Target.create fail: no project
\* with an empty pipeline is returned and no package or target is inserted;
\* an empty pipeline or an empty database comes from an absent file only
C38_MalformedIsAnError ==
    /\ (CfgLoaded /\ LastFileMalformed) => api.cfg.thrown
    /\ (api.cfg.op.name = "Project.create" /\ ~api.cfg.thrown
          /\ api.cfg.project.pipeline = EmptyMap) =>
            PIPELINE_FILE \notin DOMAIN api.cfg.disk
    /\ MalformedDatabaseIsAnError

\* C38, the databases only: a database file that exists but is malformed
\* makes Package.create and Target.create throw, no package or target is
\* inserted, and only an absent file gives an empty database
C38_DatabasesOnly ==
    /\ MalformedDatabaseIsAnError
    /\ api.cfg.thrown => (LastFileMalformed /\ api.cfg.op.name # "Project.create")

\* a package was asked for while its database file was malformed
C38_DatabaseCase ==
    /\ api.cfg.op.name = "contentPackage"
    /\ LastFileMalformed
    /\ api.cfg.thrown

\* no later file:success of the run is for the same target path: the same
\* package and resource name
LastBuildOfTarget(i) ==
    \A j \in (i + 1)..Len(events) :
        (/\ events[j].name = "file:success"
         /\ events[j].packageName = events[i].packageName)
        => parseResourcePath(events[j].sourcePath).resourceName
               # parseResourcePath(events[i].sourcePath).resourceName

\* the Target DB entries for the file:success event at index i
SuccessEntries(i) ==
    { packages[events[i].packageName].targets[ghost.prevPlatform].database.entries[j] :
        j \in TargetEntriesFor(events[i].packageName, events[i].sourcePath) }

\* the Worker that builds the source file of the event at index i
WorkerOf(i) == compilers.workers[parseResourcePath(events[i].sourcePath).resourceType]

\* the entry names the compiler of the event's Worker and lists the outputs
\* the event reports, in order and nothing else
RecordsNameAndOutputs(e, i) ==
    /\ e.compilerName = Pipeline[parseResourcePath(events[i].sourcePath).resourceType]
    /\ e.outputs = events[i].info

\* the entry holds the version of the event's Worker
RecordsVersion(e, i) ==
    IF "compilerVersion" \in DOMAIN e
    THEN e.compilerVersion = WorkerOf(i).version
    ELSE FALSE

\* C39: once a successful build result has been handled, the Target DB
\* entry of the built resource holds the compilerName and the compiler
\* version of the Worker that built it, and its outputs are the outputs of
\* the result, in order, whatever an earlier entry for the target path held
C39_EntryRecordsCompiler ==
    \A i \in 1..Len(events) :
        (events[i].name = "file:success" /\ LastBuildOfTarget(i)) =>
            /\ SuccessEntries(i) # {}
            /\ \A e \in SuccessEntries(i) :
                   RecordsNameAndOutputs(e, i) /\ RecordsVersion(e, i)

\* C39 without the version: the entry holds the compilerName of the Worker
\* and the outputs of the result
C39_EntryRecordsNameAndOutputs ==
    \A i \in 1..Len(events) :
        (events[i].name = "file:success" /\ LastBuildOfTarget(i)) =>
            /\ SuccessEntries(i) # {}
            /\ \A e \in SuccessEntries(i) : RecordsNameAndOutputs(e, i)

\* a resource is built again in a later run, over the entry of the earlier
\* build
C39_Overwritten ==
    /\ ghost.builds >= 2
    /\ phase = "building"
    /\ \E i \in 1..Len(events) :
          /\ events[i].name = "file:success"
          /\ BuiltKey([ targetPath |-> [dir |-> packages[events[i].packageName]
                                                   .targets[ghost.prevPlatform].targetPath],
                        sourcePath |-> events[i].sourcePath ]) \in DOMAIN ghost.built
          /\ SuccessEntries(i) # {}
====
